---- MODULE Spec2Model ----
(***************************************************************************)
(* A model of the ingestion pipeline of the repository: the connector      *)
(* runtime (BaseConnector.run_once and the adapters' fetch), the           *)
(* relational store with its scoped transactions, the blob archive, the    *)
(* outbox dispatcher (dispatch_once and the dispatch-outbox loop) and the  *)
(* message queue.                                                          *)
(***************************************************************************)
EXTENDS Integers, Sequences, FiniteSets, TLC

----------------------------------------------------------------------------
(* Bounds of the model. *)

\* longest listing one fetch() iterates over
MaxFeed == 2
\* number of distinct external record ids a source can list
NumIds == 2
\* run_once cycles started per behaviour, over all connectors
MaxCycles == 2
\* failures (blob, store, publish, crash) injected per behaviour
MaxFaults == 2
\* outbox rows seeded for the dispatcher-only specifications
MaxRows == 3
\* largest batch_size tried
MaxBatch == 3
\* entities on the disclosure connector's watchlist
NumCiks == 2
\* last tick of the token bucket's clock
MaxTime == 8
\* acquire() calls per behaviour
MaxGrants == 5
\* event rows in the store when a replay is tried
MaxSeed == 2
\* latest timestamp of a seeded event row
MaxTs == 2
\* replays started per behaviour
MaxReplays == 1
\* ConsumerConfig.batch_size: most messages one receive returns
MaxReceive == 2
\* process_batch calls per behaviour
MaxBatches == 2

----------------------------------------------------------------------------
(* Program constants. *)

\* published_at IS NULL
NULL == 0

Conns == {"c1", "c2"}

Disps == {"d1", "d2"}

Kinds == {"mock", "forum", "disclosure"}

\* models/events.py: the closed Source enum
SourceEnum == {"edgar", "wsb", "market", "llm", "system"}

Ids == 1..NumIds

\* edgar_cfg.ciks: the entities a disclosure connector can be told to poll
Ciks == 1..NumCiks

VARIABLES
    \* relational store (committed state)
    events,       \* set of event rows
    outbox,       \* set of outbox rows
    outboxSeq,    \* last value handed out by the outbox_id sequence
    pending,      \* per connector: rows INSERTed by its open transaction
    \* blob archive
    rawBlobs, canonBlobs,
    \* message queue: the sequence of messages received
    queue,
    \* connectors
    cfg,          \* per connector: [kind, source, mode, bus]
    cpc,          \* per connector: position in run_once
    cpos,         \* per connector: items of the source's listing looked at so far
    cur,          \* per connector: the record being processed
    nrec,         \* per connector: records processed so far (fresh event ids)
    stats,        \* per connector: the stats map of the running cycle
    cycles,       \* per connector: run_once calls completed
    returned,     \* per connector: the stats maps its run_once calls returned
    resp,         \* per disclosure connector: HTTP status of this cycle's poll
    seen_ids,     \* per forum connector: RedditConnector.seen_ids
    fixture,      \* per connector: the source; a fixed listing or a live one
    outcome,      \* history: which counter each connector counted each key in
    \* fetch state of the disclosure adapter (the SQLite file)
    seen_filings, \* set of <<cik, accession>>
    cik_state,    \* per cik: [last_etag, last_modified, last_poll_at]
    \* the disclosure adapter
    watch,        \* edgar_cfg.ciks, in polling order
    fcik,         \* per connector: index in watch of the entity fetch() is at
    consecutive_errors, \* per connector: EDGARConnector._consecutive_errors
    sleeps,       \* history, per connector: the backoff sleeps of this cycle
    yielded,      \* history: the (cik, accession) pairs the disclosure adapter's
                  \* fetch() has yielded, in order, over all cycles
    answers,      \* history, per connector: [status, retry_after] of each
                  \* response of this cycle, in the order of the watchlist
    \* the token bucket
    limiter,      \* RateLimiter: [max_rps, tokens, last_refill], and the
                  \* configured edgar_cfg.max_rps
    now,          \* time.time(), in ticks
    lpc,          \* the caller of acquire(): [at, until], at "idle", "loop" or
                  \* "sleep", until the end of its time.sleep
    grants,       \* history: the times at which acquire() returned
    \* the dispatch-outbox loop and dispatch_once
    dcfg,         \* [batch_size, interval, max_cycles] of the loops
    dpc,          \* per dispatcher: "idle", "publish", "down" or "exited"
    dbatch,       \* per dispatcher: outbox_ids of the rows selected, in order
    didx,         \* per dispatcher: index in dbatch of the next row to publish
    dmarked,      \* per dispatcher: outbox_ids whose published_at is set in the
                  \* open session, not yet committed
    dret,         \* per dispatcher: what the last dispatch_once returned
    dcycles,      \* per dispatcher: the loop's `cycles`
    clock,        \* logical UTC-now of the dispatchers
    aborted,      \* history: batch, position and queue length of a failed publish,
                  \* kept until the next cycle takes its first step after the select
    \* the replay engine
    rpc,          \* "idle", "publish" or "failed"
    rargs,        \* [start, end, key] of the running (or last) replay, and as
                  \* history the event table at its select
    rbatch,       \* the event rows its select returned, in order
    ridx,         \* index in rbatch of the next row to publish
    rruns,        \* replays started so far
    rdone,        \* history: [run, start, end, key, rows, cnt] of each replay
                  \* that returned, rows the event table at its select
    \* the queue consumer
    kcfg,         \* the consumer class: "EventProcessor" or another subclass
    kpc,          \* "idle" or "process"
    kbatch,       \* queue positions of the messages received, in order
    kidx,         \* index in kbatch of the next message to process
    kstats,       \* the stats map of the running process_batch
    kruns,        \* process_batch calls so far
    kret,         \* history: the stats maps process_batch returned
    khist,        \* history: [run, msg, result, acked] of each message handled
    deleted,      \* queue positions of the messages deleted from the queue
    artifacts,    \* the event_artifacts table
    artifactSeq,  \* last value handed out by the artifact_id sequence
    kloop,        \* BaseConsumer.run: its locals, _running and its position
    \* the operator commands
    queue_url,    \* Settings.SQS_QUEUE_URL is set
    clipc,        \* per command: "unused", "entry", "running" or "exit1"
    \* faults injected so far
    faults

svars == <<events, outbox, outboxSeq, pending>>
bvars == <<rawBlobs, canonBlobs>>

vars == <<events, outbox, outboxSeq, pending, rawBlobs, canonBlobs, queue,
          cfg, cpc, cpos, cur, nrec, stats, cycles, returned, resp, seen_ids,
          fixture, outcome, seen_filings, cik_state,
          dcfg, dpc, dbatch, didx, dmarked, dret, dcycles, clock, aborted, faults,
          watch, fcik, consecutive_errors, sleeps, answers, yielded, limiter,
          now, lpc, grants, rpc, rargs, rbatch, ridx, rruns, rdone,
          kcfg, kpc, kbatch, kidx, kstats, kruns, kret, khist, deleted, artifacts,
          artifactSeq, kloop, queue_url, clipc>>

cvars == <<cfg, cpc, cpos, cur, nrec, stats, cycles, returned, resp, seen_ids,
           fixture, outcome, seen_filings, cik_state>>
dvars == <<dcfg, dpc, dbatch, didx, dmarked, dret, dcycles, clock, aborted>>
fvars == <<watch, fcik, consecutive_errors, sleeps, answers, yielded>>
lvars == <<limiter, now, lpc, grants>>
rvars == <<rpc, rargs, rbatch, ridx, rruns, rdone>>
kvars == <<kcfg, kpc, kbatch, kidx, kstats, kruns, kret, khist, deleted, artifacts,
           artifactSeq, kloop>>
evars == <<queue_url, clipc>>
xvars == <<rvars, kvars, evars>>

----------------------------------------------------------------------------
(* Pure helpers. *)

RECURSIVE SeqsUpTo(_, _)
SeqsUpTo(S, n) ==
    IF n = 0 THEN {<<>>}
    ELSE LET shorter == SeqsUpTo(S, n - 1)
         IN  shorter \cup {Append(s, x) : s \in {t \in shorter : Len(t) = n - 1}, x \in S}

\* every listing a source can return in one poll
Feeds == SeqsUpTo(Ids, MaxFeed)

ZeroStats == [fetched |-> 0, ingested |-> 0, deduped |-> 0, errors |-> 0]

Bump(s, k) == [s EXCEPT ![k] = @ + 1]

NoRecord ==
    [id |-> 0, event_id |-> <<"none", 0>>, dedupe_key |-> <<"none", 0>>,
     event_type |-> "none", ts_event |-> 0, payload |-> [postId |-> 0]]

NoRows == [event |-> {}, outbox |-> {}]

\* the dedupeKey the adapter's normalize returns for the raw record `id`
DedupeKey(kind, id) ==
    CASE kind = "mock"       -> <<"wsb", id>>
      [] kind = "forum"      -> <<"reddit", id>>
      [] kind = "disclosure" -> <<"edgar", id>>
      [] OTHER               -> <<"sha256", id>>

\* adapters whose normalize returns no dedupeKey: "bare" returns the payload
\* only, "bare_ts" also the record's tsEvent (a datetime, as write_raw needs)
KeylessKinds == {"bare", "bare_ts"}

\* normalized.get("tsEvent", now): the adapters that return a tsEvent
CarriesTsEvent(kind) == kind # "bare"

\* json_dumps_stable(normalized) returns a string: json.dumps raises
\* TypeError on a datetime
StableEncodes(kind) == ~CarriesTsEvent(kind)

\* normalized.get("dedupeKey") or sha256(json_dumps_stable(normalized)): the
\* encoding runs only when the adapter gave no key
KeyComputed(kind) == kind \notin KeylessKinds \/ StableEncodes(kind)

\* the eventType the adapter's normalize returns
EventTypeOf(kind) ==
    IF kind = "disclosure" THEN "DISCLOSURE.FILING" ELSE "SOCIAL.MENTIONS"

\* _extract_tickers(title + selftext): post 1 mentions one ticker, the other
\* posts mention none
TickersIn(id) == IF id = 1 THEN <<"OPEN">> ELSE <<>>

\* the payload map the adapter's normalize returns for the listed item
PayloadOf(kind, item) ==
    CASE kind = "disclosure" -> [cik |-> item[1], accession |-> item[2], tickers |-> <<>>]
      [] kind = "forum"      -> [postId |-> item, tickers |-> TickersIn(item)]
      [] OTHER               -> [postId |-> item]

\* event.model_dump(mode = "json"): the canonical event JSON of a record
Canonical(rec, ts_ingested) ==
    [eventId |-> rec.event_id, eventType |-> rec.event_type,
     dedupeKey |-> rec.dedupe_key, tsEvent |-> rec.ts_event,
     tsIngested |-> ts_ingested, payload |-> rec.payload]

\* EventV1(source = cfg.source): pydantic accepts only members of Source
ValidSource(source) == source \in SourceEnum

\* cli.py: the source each operator command puts in its ConnectorConfig
\* (run-wsb, run-reddit, run-edgar)
CliSource(kind) ==
    CASE kind = "mock"       -> "wsb"
      [] kind = "forum"      -> "reddit"
      [] kind = "disclosure" -> "edgar"

\* cli.py: bus = SQSBus(...) only when mode is emit and SQS_QUEUE_URL is set
CliBus(mode, queueUrlSet) == mode = "emit" /\ queueUrlSet

\* session.query(Event).filter_by(dedupe_key = k).one_or_none()
Exists(k) == \E r \in events : r.dedupe_key = k

\* variant: the outbox row written whenever a queue client is configured
WantsOutboxWithBus(c) == cfg[c].bus

\* base.py:102: if self.cfg.mode == "emit" and self.bus
WantsOutbox(c) == cfg[c].mode = "emit" /\ cfg[c].bus

\* the operator commands: a connector command per connector, dispatch-outbox
\* per dispatcher
Commands == Conns \cup Disps

\* every command was started with what it needs and runs
CliPassed ==
    /\ queue_url = TRUE
    /\ clipc = [p \in Commands |-> "running"]

\* run-wsb, run-connector-loop, run-reddit, run-edgar --mode m: the command
\* reads the settings, creates the bus when it can, builds the connector and
\* goes on to run_once
CliConnector(c, m) ==
    /\ clipc[c] = "entry"
    /\ cfg' = [cfg EXCEPT ![c] = [kind |-> @.kind, source |-> CliSource(@.kind),
                                   mode |-> m, bus |-> CliBus(m, queue_url)]]
    /\ clipc' = [clipc EXCEPT ![c] = "running"]
    /\ UNCHANGED <<queue_url, rvars, kvars, fvars, lvars, dvars, svars, bvars, queue,
                   cpc, cpos, cur, nrec, stats, cycles, returned, resp, seen_ids,
                   fixture, outcome, seen_filings, cik_state, faults>>

\* dispatch-outbox: without SQS_QUEUE_URL the command exits with code 1
CliDispatch(d) ==
    /\ clipc[d] = "entry"
    /\ clipc' = [clipc EXCEPT ![d] = IF queue_url THEN "running" ELSE "exit1"]
    /\ UNCHANGED <<queue_url, rvars, kvars, fvars, lvars, dvars, cvars, svars, bvars,
                   queue, faults>>

----------------------------------------------------------------------------
(* The relational store. *)

\* variant: the column declared without unique = True
NoUniqueConstraint(k) == TRUE

\* the unique constraint on events.dedupe_key, checked when the row is INSERTed
UniqueOk(k) == ~Exists(k)

\* an INSERT of key k waits while another open transaction holds an
\* uncommitted row with the same key
InsertBlocked(c, k) ==
    \E o \in Conns \ {c} : \E r \in pending[o].event : r.dedupe_key = k

\* now = datetime.now(timezone.utc) at the start of run_once, as a logical
\* time: the number of the connector's running cycle
Now(c) == cycles[c] + 1

\* session.add(ev_row); session.add(Outbox(...)) when the mode and bus say so
RowsToAdd(c) ==
    [event  |-> {[event_id |-> cur[c].event_id, dedupe_key |-> cur[c].dedupe_key,
                  by |-> c, event_type |-> cur[c].event_type,
                  ts_event |-> cur[c].ts_event, ts_ingested |-> Now(c),
                  payload_json |-> cur[c].payload]},
     outbox |-> IF WantsOutbox(c)
                THEN {[outbox_id |-> outboxSeq + 1, event_id |-> cur[c].event_id,
                       payload |-> Canonical(cur[c], Now(c)),
                       published_at |-> NULL]}
                ELSE {}]

----------------------------------------------------------------------------
(* The adapters' fetch. *)

\* a source that lists the same items at every poll
Fixed(items) == [fixed |-> TRUE, items |-> items]

\* a source whose listing is whatever it is at the time of the poll
Live == [fixed |-> FALSE, items |-> <<>>]

\* fetch has no listing to iterate: _fetch_cik returned (None, False)
\* variant: the body of a 304 response is handed to the listing loop
NoDataOnlyOnError(c) == cfg[c].kind = "disclosure" /\ resp[c] \notin {200, 304}

NoData(c) == cfg[c].kind = "disclosure" /\ resp[c] # 200

\* the items the source may list at position cpos + 1 of this poll
Listed(c) ==
    IF NoData(c) THEN {}
    ELSE IF fixture[c].fixed
    THEN IF cpos[c] < Len(fixture[c].items) THEN {fixture[c].items[cpos[c] + 1]} ELSE {}
    ELSE IF cpos[c] < MaxFeed THEN Ids ELSE {}

\* whether the listing (of the current entity) may end at position cpos
ListingEnds(c) ==
    \/ NoData(c)
    \/ IF fixture[c].fixed THEN cpos[c] = Len(fixture[c].items) ELSE TRUE

\* variant: an adapter that keeps no record of what it has yielded
NeverFiltered(c, id) == FALSE

\* the entity whose listing the disclosure adapter's fetch() is iterating
CurCik(c) == watch[fcik[c]]

\* what identifies the listed item `id`: the post id, or (cik, accession)
Item(c, id) == IF cfg[c].kind = "disclosure" THEN <<CurCik(c), id>> ELSE id

\* whether fetch skips the listed item `id` instead of yielding it
Filtered(c, id) ==
    CASE cfg[c].kind = "mock"       -> FALSE
      [] cfg[c].kind = "forum"      -> id \in seen_ids[c]
      [] cfg[c].kind = "disclosure" -> Item(c, id) \in seen_filings
      [] OTHER                      -> FALSE

\* variant: an adapter that marks nothing before it yields
MarkSeenLater(c, id) ==
    /\ seen_ids' = seen_ids
    /\ seen_filings' = seen_filings

\* the adapter marks the yielded item before handing it to run_once
MarkSeen(c, id) ==
    /\ seen_ids' = IF cfg[c].kind = "forum"
                   THEN [seen_ids EXCEPT ![c] = @ \cup {id}] ELSE seen_ids
    /\ seen_filings' = IF cfg[c].kind = "disclosure"
                       THEN seen_filings \cup {Item(c, id)} ELSE seen_filings

\* fetch() yields the listed item `id` to the loop of run_once
Yield(c, id) ==
    yielded' = IF cfg[c].kind = "disclosure"
               THEN Append(yielded, Item(c, id)) ELSE yielded

\* normalized["tsEvent"]: the source's timestamp of the item (created_utc,
\* filingDate), which the mock sets to the time of its fetch
TsEvent(c, id) == IF cfg[c].kind \in {"mock", "bare"} THEN Now(c) ELSE id

\* the record run_once builds from a yielded item: fresh event id, dedupe key
NewRecord(c, id) ==
    [id |-> id, event_id |-> <<c, nrec[c] + 1>>,
     dedupe_key |-> DedupeKey(cfg[c].kind, Item(c, id)),
     event_type |-> EventTypeOf(cfg[c].kind),
     ts_event |-> TsEvent(c, id),
     payload |-> PayloadOf(cfg[c].kind, Item(c, id))]

\* stats[what] += 1 for record `rec` (and the history of what was counted)
CountRec(c, rec, what) ==
    /\ stats' = [stats EXCEPT ![c] = Bump(@, what)]
    /\ outcome' = outcome \cup {[conn |-> c, key |-> rec.dedupe_key, what |-> what]}

Count(c, what) == CountRec(c, cur[c], what)

----------------------------------------------------------------------------
(* BaseConnector.run_once, one step at a time. *)

\* run_once calls so far, running ones included
CyclesStarted ==
    LET n[S \in SUBSET Conns] ==
          IF S = {} THEN 0
          ELSE LET c == CHOOSE x \in S : TRUE
               IN  cycles[c] + (IF cpc[c] \in {"idle", "raised"} THEN 0 ELSE 1)
                   + n[S \ {c}]
    IN  n[Conns]

\* run_once is called (again, by the operator loop, after a return or after
\* an exception): stats are zeroed and fetch() starts
StartCycle(c) ==
    /\ cpc[c] \in {"idle", "raised"}
    /\ CyclesStarted < MaxCycles
    /\ cpc' = [cpc EXCEPT ![c] = "fetch"]
    /\ cpos' = [cpos EXCEPT ![c] = 0]
    /\ stats' = [stats EXCEPT ![c] = ZeroStats]
    /\ resp' = [resp EXCEPT ![c] = 0]
    /\ fcik' = [fcik EXCEPT ![c] = 0]
    /\ sleeps' = [sleeps EXCEPT ![c] = <<>>]
    /\ answers' = [answers EXCEPT ![c] = <<>>]
    /\ UNCHANGED <<xvars, watch, consecutive_errors, yielded, lvars, dvars, svars, bvars,
                   queue, cfg, returned, cur, nrec, cycles, seen_ids, fixture,
                   outcome, seen_filings, cik_state, faults>>

\* no response: session.get raised a RequestException
TransportFailure == 0

\* the responses the server can give to one request
Statuses == {TransportFailure, 200, 304, 403, 404, 429, 500}

\* a Retry-After header that is an HTTP-date, not a number of seconds
HttpDate == -1

\* the headers of a response that the fetcher reads
Headers ==
    [etag : {NULL, 1}, last_modified : {NULL, 1}, retry_after : {NULL, 2, HttpDate}]

\* the cooldown sleep: 10 * 60 * random.uniform(0.8, 1.2) seconds
Cooldowns == {480, 720}

\* _update_cik_state: COALESCE keeps a stored header when the new one is None
\* variant: an upsert without COALESCE, a validator the response does not
\* carry is stored as NULL
OverwrittenCikState(old, etag, last_modified) ==
    [last_etag     |-> etag,
     last_modified |-> last_modified,
     last_poll_at  |-> old.last_poll_at + 1]

UpdatedCikState(old, etag, last_modified) ==
    [last_etag     |-> IF etag # NULL THEN etag ELSE old.last_etag,
     last_modified |-> IF last_modified # NULL THEN last_modified
                       ELSE old.last_modified,
     last_poll_at  |-> old.last_poll_at + 1]

\* variant: a server error is handled like a rate-limit response
RateLimitedOrServerError(status) == status \in {403, 429, 500}

\* the responses _fetch_cik hands to _handle_rate_limit
RateLimited(status) == status \in {403, 429}

\* int(retry_after) raises ValueError on a header that is not a number
RetryAfterRaises(hdr) == hdr.retry_after = HttpDate

\* wait_time = int(retry_after) if retry_after else 60
WaitTime(hdr) == IF hdr.retry_after = NULL THEN 60 ELSE hdr.retry_after

\* _handle_rate_limit enters the cooldown at this many consecutive errors
CooldownAt == 3

\* the disclosure adapter's fetch() goes on to the next entity of the watchlist
\* and _fetch_cik requests it: 200 updates the cached headers and hands the
\* listing to the loop, 304 (only to a conditional request) touches
\* last_poll_at, 429/403 go to _handle_rate_limit, anything else skips the
\* entity
PollCik(c, status, hdr) ==
    /\ cpc[c] = "fetch"
    /\ cfg[c].kind = "disclosure"
    /\ ListingEnds(c)
    /\ fcik[c] < Len(watch)
    /\ LET cik == watch[fcik[c] + 1]
           old == cik_state[cik]
           n   == consecutive_errors[c]
       IN  /\ status = 304 => (old.last_etag # NULL \/ old.last_modified # NULL)
           /\ status \notin {200, 304} => (hdr.etag = NULL /\ hdr.last_modified = NULL)
           /\ status = 304 => (hdr.etag = NULL /\ hdr.last_modified = NULL)
           /\ status \notin {403, 429} => hdr.retry_after = NULL
           /\ fcik' = [fcik EXCEPT ![c] = @ + 1]
           /\ cpos' = [cpos EXCEPT ![c] = 0]
           /\ resp' = [resp EXCEPT ![c] = status]
           /\ answers' = [answers EXCEPT ![c] =
                            Append(@, [status |-> status,
                                       retry_after |-> hdr.retry_after,
                                       acquired |-> 1,
                                       if_none_match |-> old.last_etag,
                                       if_modified_since |-> old.last_modified,
                                       etag |-> hdr.etag,
                                       last_modified |-> hdr.last_modified])]
           /\ cik_state' =
                CASE status = 200 ->
                       [cik_state EXCEPT
                          ![cik] = UpdatedCikState(old, hdr.etag, hdr.last_modified)]
                  [] status = 304 ->
                       [cik_state EXCEPT
                          ![cik] = UpdatedCikState(old, old.last_etag, old.last_modified)]
                  [] OTHER -> cik_state
           /\ IF RateLimited(status)
              THEN IF RetryAfterRaises(hdr)
                   THEN \* the ValueError leaves _fetch_cik, fetch() and run_once
                        /\ consecutive_errors' = [consecutive_errors EXCEPT ![c] = n + 1]
                        /\ sleeps' = sleeps
                        /\ cpc' = [cpc EXCEPT ![c] = "raised"]
                        /\ cycles' = [cycles EXCEPT ![c] = @ + 1]
                   ELSE IF n + 1 >= CooldownAt
                   THEN /\ \E secs \in Cooldowns :
                              sleeps' = [sleeps EXCEPT ![c] =
                                           Append(@, [kind |-> "cooldown", secs |-> secs])]
                        /\ consecutive_errors' = [consecutive_errors EXCEPT ![c] = 0]
                        /\ UNCHANGED <<xvars, cpc, cycles>>
                   ELSE /\ sleeps' = [sleeps EXCEPT ![c] =
                                        Append(@, [kind |-> "retry", secs |-> WaitTime(hdr)])]
                        /\ consecutive_errors' = [consecutive_errors EXCEPT ![c] = n + 1]
                        /\ UNCHANGED <<xvars, cpc, cycles>>
              ELSE /\ consecutive_errors' =
                        IF status \in {200, 304}
                        THEN [consecutive_errors EXCEPT ![c] = 0]
                        ELSE consecutive_errors
                   /\ UNCHANGED <<xvars, sleeps, cpc, cycles>>
    /\ UNCHANGED <<xvars, watch, yielded, lvars, dvars, svars, bvars, queue, cfg, returned,
                   cur, nrec, stats, seen_ids, fixture, outcome, seen_filings,
                   faults>>

\* fetch() is exhausted: run_once returns its stats
EndCycle(c) ==
    /\ cpc[c] = "fetch"
    /\ ListingEnds(c)
    /\ cfg[c].kind = "disclosure" => fcik[c] = Len(watch)
    /\ cpc' = [cpc EXCEPT ![c] = "idle"]
    /\ cycles' = [cycles EXCEPT ![c] = @ + 1]
    /\ returned' = [returned EXCEPT ![c] = Append(@, stats[c])]
    /\ UNCHANGED <<xvars, fvars, lvars, dvars, svars, bvars, queue, cfg, resp, cpos, cur, nrec, stats, seen_ids,
                   fixture, outcome, seen_filings, cik_state, faults>>

\* the fetch-state store fails while fetch() reads or writes it (_is_seen,
\* _mark_seen): the sqlite3 error leaves the generator and, the for statement
\* of run_once being outside its try, run_once itself
FetchRaise(c) ==
    /\ cpc[c] = "fetch"
    /\ cfg[c].kind = "disclosure"
    /\ \E id \in Listed(c) : TRUE
    /\ faults < MaxFaults
    /\ faults' = faults + 1
    /\ cpc' = [cpc EXCEPT ![c] = "raised"]
    /\ cycles' = [cycles EXCEPT ![c] = @ + 1]
    /\ UNCHANGED <<xvars, fvars, lvars, dvars, svars, bvars, queue, cfg, returned, resp, cpos,
                   cur, nrec, stats, seen_ids, fixture, outcome, seen_filings,
                   cik_state>>

\* fetch() looks at the next listed item and skips it: already seen
FetchSkip(c) ==
    /\ cpc[c] = "fetch"
    /\ \E id \in Listed(c) :
          /\ Filtered(c, id)
          /\ cpos' = [cpos EXCEPT ![c] = @ + 1]
    /\ UNCHANGED <<xvars, fvars, lvars, dvars, svars, bvars, queue, cfg, returned, resp, cpc, cur, nrec, stats, cycles, seen_ids,
                   fixture, outcome, seen_filings, cik_state, faults>>

\* fetch() yields the next item; fetched is counted, then normalize, write_raw
\* and EventV1(...) follow. A source outside the Source enum fails validation
\* after the raw blob is written and the record is counted in errors.
\* variant: the raw blob written after the commit instead of before it
RawNotYetWritten(c, id) == {}

\* write_raw for the record taken from fetch, before its transaction
RawWritten(c, id) == {NewRecord(c, id).event_id}

FetchNext(c) ==
    /\ cpc[c] = "fetch"
    /\ \E id \in Listed(c) :
          /\ ~Filtered(c, id)
          /\ MarkSeen(c, id)
          /\ Yield(c, id)
          /\ cpos' = [cpos EXCEPT ![c] = @ + 1]
          /\ nrec' = [nrec EXCEPT ![c] = @ + 1]
          /\ rawBlobs' = rawBlobs \cup RawWritten(c, id)
          /\ IF KeyComputed(cfg[c].kind) /\ ValidSource(cfg[c].source)
             THEN /\ cur' = [cur EXCEPT ![c] = NewRecord(c, id)]
                  /\ cpc' = [cpc EXCEPT ![c] = "txn"]
                  /\ stats' = [stats EXCEPT ![c] = Bump(@, "fetched")]
                  /\ outcome' = outcome
             ELSE /\ cur' = cur
                  /\ cpc' = cpc
                  /\ stats' = [stats EXCEPT ![c] = Bump(Bump(@, "fetched"), "errors")]
                  /\ outcome' = outcome \cup
                        {[conn |-> c, key |-> NewRecord(c, id).dedupe_key,
                          what |-> "errors"]}
    /\ UNCHANGED <<xvars, watch, fcik, consecutive_errors, sleeps, answers, lvars, dvars,
                   svars, canonBlobs, queue, cfg, returned, resp, cycles, fixture,
                   cik_state, faults>>

\* fetch() yields the next item and normalize or write_raw raises: no raw blob,
\* the record is counted in errors
FetchFail(c) ==
    /\ cpc[c] = "fetch"
    /\ faults < MaxFaults
    /\ faults' = faults + 1
    /\ \E id \in Listed(c) :
          /\ ~Filtered(c, id)
          /\ MarkSeen(c, id)
          /\ Yield(c, id)
          /\ cpos' = [cpos EXCEPT ![c] = @ + 1]
          /\ nrec' = [nrec EXCEPT ![c] = @ + 1]
          /\ stats' = [stats EXCEPT ![c] = Bump(Bump(@, "fetched"), "errors")]
          /\ outcome' = outcome \cup
                {[conn |-> c, key |-> NewRecord(c, id).dedupe_key, what |-> "errors"]}
    /\ UNCHANGED <<xvars, watch, fcik, consecutive_errors, sleeps, answers, lvars, dvars,
                   svars, bvars, queue, cfg, returned, resp, cpc, cur, cycles,
                   fixture, cik_state>>

\* variant: an upsert, the existing row's ts_ingested refreshed by the dedupe
EventsRefreshedByDedupe(c) ==
    {IF r.dedupe_key = cur[c].dedupe_key THEN [r EXCEPT !.ts_ingested = Now(c) + 1] ELSE r
       : r \in events}

\* the events table after the existence query found the row: `continue`
\* leaves the scope with nothing added or changed
EventsAfterDedupe(c) == events

\* with session_scope(): the existence query; an existing row is a dedupe
TxnCheck(c) ==
    /\ cpc[c] = "txn"
    /\ IF Exists(cur[c].dedupe_key)
       THEN /\ Count(c, "deduped")
            /\ events' = EventsAfterDedupe(c)
            /\ cpc' = [cpc EXCEPT ![c] = "fetch"]
       ELSE /\ stats' = stats
            /\ outcome' = outcome
            /\ events' = events
            /\ cpc' = [cpc EXCEPT ![c] = "flush"]
    /\ UNCHANGED <<xvars, fvars, lvars, dvars, outbox, outboxSeq, pending, bvars, queue, cfg, returned, resp, cpos, cur, nrec, cycles,
                   seen_ids, fixture, seen_filings, cik_state, faults>>

\* what run_once counts when the INSERT hits the unique constraint: the
\* IntegrityError leaves the scope (rollback, re-raise) and reaches
\* `except Exception`
UniqueViolationCountedIn == "errors"

\* session.commit() flushes: the INSERTs run, the outbox_id is drawn
Flush(c) ==
    /\ cpc[c] = "flush"
    /\ ~InsertBlocked(c, cur[c].dedupe_key)
    /\ IF UniqueOk(cur[c].dedupe_key)
       THEN /\ pending' = [pending EXCEPT ![c] = RowsToAdd(c)]
            /\ outboxSeq' = outboxSeq + Cardinality(RowsToAdd(c).outbox)
            /\ cpc' = [cpc EXCEPT ![c] = "commit"]
            /\ stats' = stats
            /\ outcome' = outcome
       ELSE /\ pending' = pending
            /\ outboxSeq' = outboxSeq
            /\ cpc' = [cpc EXCEPT ![c] = "fetch"]
            /\ Count(c, UniqueViolationCountedIn)
    /\ UNCHANGED <<xvars, fvars, lvars, dvars, events, outbox, bvars, queue, cfg, returned, resp, cpos, cur, nrec, cycles,
                   seen_ids, fixture, seen_filings, cik_state, faults>>

\* variant: a commit that makes the event row visible and loses the rest
CommitEventRowOnly(c) == [event |-> pending[c].event, outbox |-> {}]

\* the rows an open transaction makes visible when it commits
CommitRows(c) == pending[c]

\* COMMIT succeeds: the rows become visible, the record is counted as ingested
Commit(c) ==
    /\ cpc[c] = "commit"
    /\ events' = events \cup CommitRows(c).event
    /\ outbox' = outbox \cup CommitRows(c).outbox
    /\ pending' = [pending EXCEPT ![c] = NoRows]
    /\ Count(c, "ingested")
    /\ cpc' = [cpc EXCEPT ![c] = "canon"]
    /\ UNCHANGED <<xvars, fvars, lvars, dvars, outboxSeq, bvars, queue, cfg, returned, resp, cpos, cur, nrec, cycles,
                   seen_ids, fixture, seen_filings, cik_state, faults>>

\* variant: the outbox row written outside the event's transaction
OutboxRowSurvivesRollback(c) == [event |-> {}, outbox |-> pending[c].outbox]

\* the rows of an open transaction that reach the store when an error leaves
\* the scope: session.rollback() drops them all
RowsAfterRollback(c) == NoRows

\* variant: a handler around the loop, the failed record ends the cycle
RecordErrorEndsCycle == "idle"

\* where run_once goes on after the per-record handler caught an error: the
\* handler is inside the for loop, the next record is taken from fetch
AfterRecordError == "fetch"

\* the store fails inside the scope (query, flush or commit): rollback, re-raise,
\* the record is counted in errors
TxnFail(c) ==
    /\ cpc[c] \in {"txn", "flush", "commit"}
    /\ faults < MaxFaults
    /\ faults' = faults + 1
    /\ events' = events \cup RowsAfterRollback(c).event
    /\ outbox' = outbox \cup RowsAfterRollback(c).outbox
    /\ pending' = [pending EXCEPT ![c] = NoRows]
    /\ Count(c, "errors")
    /\ cpc' = [cpc EXCEPT ![c] = AfterRecordError]
    /\ UNCHANGED <<xvars, fvars, lvars, dvars, outboxSeq, bvars, queue, cfg, returned, resp, cpos, cur,
                   nrec, cycles, seen_ids, fixture, seen_filings, cik_state>>

\* write_event after the commit
Canon(c) ==
    /\ cpc[c] = "canon"
    /\ canonBlobs' = canonBlobs \cup {cur[c].event_id}
    /\ cpc' = [cpc EXCEPT ![c] = "fetch"]
    /\ UNCHANGED <<xvars, fvars, lvars, dvars, svars, rawBlobs, queue, cfg, returned, resp, cpos, cur, nrec, stats, cycles,
                   seen_ids, fixture, outcome, seen_filings, cik_state, faults>>

\* variant: a handler that takes the record back out of ingested
StatsCanonFailUncounted(s) == [Bump(s, "errors") EXCEPT !.ingested = @ - 1]

\* the stats after write_event raised: ingested was incremented before the
\* call, the handler increments errors
StatsAfterCanonFail(s) == Bump(s, "errors")

\* write_event raises: caught by the per-record handler, errors is incremented
CanonFail(c) ==
    /\ cpc[c] = "canon"
    /\ faults < MaxFaults
    /\ faults' = faults + 1
    /\ stats' = [stats EXCEPT ![c] = StatsAfterCanonFail(@)]
    /\ outcome' = outcome \cup
          {[conn |-> c, key |-> cur[c].dedupe_key, what |-> "errors"]}
    /\ cpc' = [cpc EXCEPT ![c] = "fetch"]
    /\ UNCHANGED <<xvars, fvars, lvars, dvars, svars, bvars, queue, cfg, returned, resp, cpos, cur, nrec, cycles,
                   seen_ids, fixture, seen_filings, cik_state>>

\* KeyboardInterrupt reaches the process while the connector loop runs: it
\* is no Exception, so neither the per-record handler nor the scope's
\* rollback handler catches it; session.close() discards the open
\* transaction, run_once returns nothing and the loop's handler breaks
Interrupt(c) ==
    /\ cpc[c] \in {"idle", "fetch", "txn", "flush", "commit", "canon"}
    /\ pending' = [pending EXCEPT ![c] = NoRows]
    /\ cpc' = [cpc EXCEPT ![c] = "stopped"]
    /\ UNCHANGED <<xvars, fvars, lvars, dvars, events, outbox, outboxSeq, bvars, queue,
                   cfg, returned, resp, cpos, cur, nrec, stats, cycles, seen_ids,
                   fixture, outcome, seen_filings, cik_state, faults>>

ConnectorStep(c) ==
    \/ StartCycle(c)
    \/ EndCycle(c)
    \/ FetchSkip(c)
    \/ FetchNext(c)
    \/ FetchFail(c)
    \/ TxnCheck(c)
    \/ Flush(c)
    \/ Commit(c)
    \/ TxnFail(c)
    \/ Canon(c)
    \/ CanonFail(c)

----------------------------------------------------------------------------
(* The outbox dispatcher: dispatch_once inside the dispatch-outbox loop. *)

OutboxIds(rows) == {r.outbox_id : r \in rows}

RowOf(id) == CHOOSE r \in outbox : r.outbox_id = id

\* the ids in S in ascending order
RECURSIVE Ascending(_)
Ascending(S) ==
    IF S = {} THEN <<>>
    ELSE LET m == CHOOSE x \in S : \A y \in S : x <= y
         IN  <<m>> \o Ascending(S \ {m})

Take(s, n) == SubSeq(s, 1, IF Len(s) < n THEN Len(s) ELSE n)

\* variant: the select without its order_by (rows come back newest first)
SelectBatchNewestFirst(n) ==
    LET asc == Ascending(OutboxIds({r \in outbox : r.published_at = NULL}))
    IN  Take([i \in DOMAIN asc |-> asc[Len(asc) + 1 - i]], n)

\* variant: the select without its where clause
SelectBatchAnyRow(n) == Take(Ascending(OutboxIds(outbox)), n)

\* select(Outbox).where(published_at IS NULL).order_by(outbox_id).limit(n)
SelectBatch(n) ==
    Take(Ascending(OutboxIds({r \in outbox : r.published_at = NULL})), n)

\* bus.publish(row.payload): the queue receives the row's payload column as
\* the body (the event and the outbox_id it came from are kept as history)
Message(id) ==
    [event_id |-> RowOf(id).event_id, outbox_id |-> id, via |-> "dispatcher",
     run |-> 0, body |-> RowOf(id).payload]

\* variant: published_at written and committed before the publish call
MarksWithFailingRow(d) ==
    dmarked[d] \cup {dbatch[d][i] : i \in {didx[d]} \cap DOMAIN dbatch[d]}

\* variant: every row's update committed on its own, right after its publish
MarksOfPublishedRows(d) == dmarked[d]

\* the session's updates that reach the store when an error leaves the scope:
\* session.rollback() drops them all
MarksAfterError(d) == {}

\* the store after the session's published_at updates in `marks` are committed
ApplyMarks(marks) ==
    {IF r.outbox_id \in marks THEN [r EXCEPT !.published_at = clock] ELSE r
       : r \in outbox}

\* variant: a loop that lets the exception end the command
AfterErrorExit == "exited"

\* the loop after dispatch_once raised: one-shot mode exits with code 1,
\* else the loop sleeps `interval` and goes on
AfterError == IF dcfg.interval = 0 THEN "exited" ELSE "idle"

\* the loop after dispatch_once returned: one-shot and max_cycles end it
AfterReturn(d) ==
    IF dcfg.interval = 0 \/ (dcfg.max_cycles > 0 /\ dcycles[d] + 1 >= dcfg.max_cycles)
    THEN "exited" ELSE "idle"

NoAbort == [batch |-> <<>>, at |-> 0, qlen |-> 0]

\* dispatch_once opens its session and selects the batch
DSelect(d) ==
    /\ dpc[d] = "idle"
    /\ dbatch' = [dbatch EXCEPT ![d] = SelectBatch(dcfg.batch_size)]
    /\ didx' = [didx EXCEPT ![d] = 1]
    /\ dmarked' = [dmarked EXCEPT ![d] = {}]
    /\ clock' = IF SelectBatch(dcfg.batch_size) # <<>> THEN clock + 1 ELSE clock
    /\ dpc' = [dpc EXCEPT ![d] = "publish"]
    /\ UNCHANGED <<xvars, fvars, lvars, svars, bvars, queue, cvars, dcfg, dret, dcycles, aborted, faults>>

\* bus.publish(row.payload) succeeds; row.published_at = now; dispatched += 1
DPublish(d) ==
    /\ dpc[d] = "publish"
    /\ didx[d] <= Len(dbatch[d])
    /\ queue' = Append(queue, Message(dbatch[d][didx[d]]))
    /\ dmarked' = [dmarked EXCEPT ![d] = @ \cup {dbatch[d][didx[d]]}]
    /\ didx' = [didx EXCEPT ![d] = @ + 1]
    /\ aborted' = [aborted EXCEPT ![d] = NoAbort]
    /\ UNCHANGED <<xvars, fvars, lvars, svars, bvars, cvars, dcfg, dpc, dbatch, dret, dcycles, clock,
                   faults>>

\* bus.publish raises: the scope rolls back and re-raises, the loop handles it
DPublishFail(d) ==
    /\ dpc[d] = "publish"
    /\ didx[d] <= Len(dbatch[d])
    /\ faults < MaxFaults
    /\ faults' = faults + 1
    /\ outbox' = ApplyMarks(MarksAfterError(d))
    /\ dmarked' = [dmarked EXCEPT ![d] = {}]
    /\ aborted' = [aborted EXCEPT ![d] = [batch |-> dbatch[d], at |-> didx[d],
                                          qlen |-> Len(queue)]]
    /\ dpc' = [dpc EXCEPT ![d] = AfterError]
    /\ UNCHANGED <<xvars, fvars, lvars, events, outboxSeq, pending, bvars, queue, cvars, dcfg, dbatch, didx,
                   dret, dcycles, clock>>

\* the scope commits, dispatch_once returns the number dispatched, the loop
\* counts the cycle
DCommit(d) ==
    /\ dpc[d] = "publish"
    /\ didx[d] > Len(dbatch[d])
    /\ outbox' = ApplyMarks(dmarked[d])
    /\ dmarked' = [dmarked EXCEPT ![d] = {}]
    /\ dret' = [dret EXCEPT ![d] = Len(dbatch[d])]
    /\ dcycles' = [dcycles EXCEPT ![d] = IF dcfg.max_cycles > 0 THEN @ + 1 ELSE @]
    /\ aborted' = [aborted EXCEPT ![d] = NoAbort]
    /\ dpc' = [dpc EXCEPT ![d] = AfterReturn(d)]
    /\ UNCHANGED <<xvars, fvars, lvars, events, outboxSeq, pending, bvars, queue, cvars, dcfg, dbatch, didx,
                   clock, faults>>

\* session.commit() raises: rollback, re-raise, the loop handles it
DCommitFail(d) ==
    /\ dpc[d] = "publish"
    /\ didx[d] > Len(dbatch[d])
    /\ faults < MaxFaults
    /\ faults' = faults + 1
    /\ outbox' = ApplyMarks(MarksAfterError(d))
    /\ dmarked' = [dmarked EXCEPT ![d] = {}]
    /\ aborted' = [aborted EXCEPT ![d] = NoAbort]
    /\ dpc' = [dpc EXCEPT ![d] = AfterError]
    /\ UNCHANGED <<xvars, fvars, lvars, events, outboxSeq, pending, bvars, queue, cvars, dcfg, dbatch, didx,
                   dret, dcycles, clock>>

\* the process dies inside dispatch_once: the open session is lost with its
\* uncommitted updates
DCrash(d) ==
    /\ dpc[d] = "publish"
    /\ faults < MaxFaults
    /\ faults' = faults + 1
    /\ dmarked' = [dmarked EXCEPT ![d] = {}]
    /\ aborted' = [aborted EXCEPT ![d] = NoAbort]
    /\ dpc' = [dpc EXCEPT ![d] = "down"]
    /\ UNCHANGED <<xvars, fvars, lvars, svars, bvars, queue, cvars, dcfg, dbatch, didx, dret, dcycles,
                   clock>>

\* the operator starts the loop again
DRestart(d) ==
    /\ dpc[d] = "down"
    /\ dcycles' = [dcycles EXCEPT ![d] = 0]
    /\ dpc' = [dpc EXCEPT ![d] = "idle"]
    /\ UNCHANGED <<xvars, fvars, lvars, svars, bvars, queue, cvars, dcfg, dbatch, didx, dmarked, dret,
                   clock, aborted, faults>>

DispatcherStep(d) ==
    \/ DSelect(d)
    \/ DPublish(d)
    \/ DPublishFail(d)
    \/ DCommit(d)
    \/ DCommitFail(d)
    \/ DCrash(d)
    \/ DRestart(d)

----------------------------------------------------------------------------
(* The token bucket of the disclosure fetcher: RateLimiter. *)

\* rates are multiples of 1 / RateDen requests per second
RateDen == 2

\* time is counted in ticks of 1 / TicksPerSec seconds
TicksPerSec == 2

SEC_ABSOLUTE_MAX_RPS == 8

\* DEFAULT_RPS = 2.0, in units of 1 / RateDen
DefaultRate == 2 * RateDen

\* one token, in the unit `tokens` is kept in (1 / (RateDen * TicksPerSec))
OneToken == RateDen * TicksPerSec

Min(a, b) == IF a < b THEN a ELSE b

\* ceil(a / b) for a >= 0, b > 0
CeilDiv(a, b) == (a + b - 1) \div b

\* variant: __post_init__ without the cap
NewLimiterUncapped(rate, t) ==
    [configured |-> rate, max_rps |-> rate, tokens |-> rate * TicksPerSec,
     last_refill |-> t]

\* __post_init__: the rate is capped, the bucket starts full
NewLimiter(rate, t) ==
    LET capped == Min(rate, SEC_ABSOLUTE_MAX_RPS * RateDen)
    IN  [configured |-> rate, max_rps |-> capped, tokens |-> capped * TicksPerSec,
         last_refill |-> t]

\* the bucket's capacity, in the unit of `tokens`: max_rps tokens
Capacity(l) == l.max_rps * TicksPerSec

\* variant: a refill that is not capped at the capacity
RefilledUncapped(l, t) == l.tokens + (t - l.last_refill) * l.max_rps

\* tokens = min(max_rps, tokens + elapsed * max_rps)
Refilled(l, t) == Min(Capacity(l), l.tokens + (t - l.last_refill) * l.max_rps)

\* wait_time = (1 - tokens) / max_rps, in ticks; time.sleep sleeps at least
\* that long
WaitTicks(tokens, rate) == CeilDiv(OneToken - tokens, rate)

Idle == [at |-> "idle", until |-> 0]

\* the fetcher calls acquire()
Acquire ==
    /\ lpc.at = "idle"
    /\ Len(grants) < MaxGrants
    /\ lpc' = [at |-> "loop", until |-> 0]
    /\ UNCHANGED <<xvars, limiter, now, grants, fvars, dvars, cvars, svars, bvars, queue, faults>>

\* one iteration of the loop of acquire(): refill, then take a token and
\* return, or sleep
AcquireLoop ==
    /\ lpc.at = "loop"
    /\ LET tokens == Refilled(limiter, now)
       IN  IF tokens >= OneToken
           THEN /\ limiter' = [limiter EXCEPT !.tokens = tokens - OneToken,
                                              !.last_refill = now]
                /\ lpc' = Idle
                /\ grants' = Append(grants, now)
           ELSE /\ limiter' = [limiter EXCEPT !.tokens = tokens, !.last_refill = now]
                /\ lpc' = [at |-> "sleep",
                           until |-> now + WaitTicks(tokens, limiter.max_rps)]
                /\ grants' = grants
    /\ UNCHANGED <<xvars, now, fvars, dvars, cvars, svars, bvars, queue, faults>>

\* time.sleep(wait_time) returns
Wake ==
    /\ lpc.at = "sleep"
    /\ now >= lpc.until
    /\ lpc' = [at |-> "loop", until |-> 0]
    /\ UNCHANGED <<xvars, limiter, now, grants, fvars, dvars, cvars, svars, bvars, queue, faults>>

\* time passes
Tick ==
    /\ now < MaxTime
    /\ now' = now + 1
    /\ UNCHANGED <<xvars, limiter, lpc, grants, fvars, dvars, cvars, svars, bvars, queue, faults>>

\* no fetcher is running: the limiter is constructed and never called
LimiterUnused ==
    /\ limiter = NewLimiter(DefaultRate, 0)
    /\ now = 0
    /\ lpc = Idle
    /\ grants = <<>>

----------------------------------------------------------------------------
(* The replay engine: replay_by_ts_event and replay_by_ts_ingested. *)

ReplayKeys == {"ts_event", "ts_ingested"}

\* the timestamp column a replay filters and orders by
Ts(e, key) == IF key = "ts_event" THEN e.ts_event ELSE e.ts_ingested

\* where(column.between(start, end)): both ends included
InWindow(start, end, key) ==
    {e \in events : start <= Ts(e, key) /\ Ts(e, key) <= end}

\* every order in which the rows of S can come back
RECURSIVE Orderings(_)
Orderings(S) ==
    IF S = {} THEN {<<>>}
    ELSE UNION {{<<x>> \o s : s \in Orderings(S \ {x})} : x \in S}

\* variant: the select without its order_by
ReplayRowsUnordered(start, end, key) == Orderings(InWindow(start, end, key))

\* select(Event).where(...).order_by(column): ascending, rows with equal
\* timestamps in any order
ReplayRows(start, end, key) ==
    {s \in Orderings(InWindow(start, end, key)) :
       \A i, j \in DOMAIN s : i < j => Ts(s[i], key) <= Ts(s[j], key)}

\* bus.publish(row[0].payload_json): the body is the event row's payload
\* column (the event it came from and the replay are kept as history)
ReplayMessage(e, run) ==
    [event_id |-> e.event_id, outbox_id |-> 0, via |-> "replay", run |-> run,
     body |-> e.payload_json]

\* variant: a replay that marks the outbox row of each event it publishes
OutboxMarkedByReplay(e) ==
    {IF r.event_id = e.event_id THEN [r EXCEPT !.published_at = clock + 1] ELSE r
       : r \in outbox}

\* the outbox after replay published event row e: replay writes no row
OutboxAfterReplay(e) == outbox

NoReplay == [start |-> 0, end |-> 0, key |-> "ts_event", rows |-> {}]

\* no replay has been started
ReplayUnused ==
    /\ rpc = "idle"
    /\ rargs = NoReplay
    /\ rbatch = <<>>
    /\ ridx = 1
    /\ rruns = 0
    /\ rdone = <<>>

\* replay is called: the session opens and the select runs
RSelect(start, end, key) ==
    /\ rpc \in {"idle", "failed"}
    /\ rruns < MaxReplays
    /\ rruns' = rruns + 1
    /\ rargs' = [start |-> start, end |-> end, key |-> key, rows |-> events]
    /\ rbatch' \in ReplayRows(start, end, key)
    /\ ridx' = 1
    /\ rpc' = "publish"
    /\ UNCHANGED <<evars, kvars, rdone, fvars, lvars, dvars, cvars, svars, bvars, queue, faults>>

\* bus.publish(row[0].payload_json) succeeds; cnt += 1
RPublish ==
    /\ rpc = "publish"
    /\ ridx <= Len(rbatch)
    /\ queue' = Append(queue, ReplayMessage(rbatch[ridx], rruns))
    /\ outbox' = OutboxAfterReplay(rbatch[ridx])
    /\ ridx' = ridx + 1
    /\ UNCHANGED <<evars, kvars, rpc, rargs, rbatch, rruns, rdone, fvars, lvars, dvars, cvars,
                   events, outboxSeq, pending, bvars, faults>>

\* bus.publish raises: the scope rolls back and the error leaves replay
RPublishFail ==
    /\ rpc = "publish"
    /\ ridx <= Len(rbatch)
    /\ faults < MaxFaults
    /\ faults' = faults + 1
    /\ rpc' = "failed"
    /\ UNCHANGED <<evars, kvars, rargs, rbatch, ridx, rruns, rdone, fvars, lvars, dvars, cvars,
                   svars, bvars, queue>>

\* the rows are exhausted: the scope commits and replay returns cnt
RReturn ==
    /\ rpc = "publish"
    /\ ridx > Len(rbatch)
    /\ rdone' = Append(rdone, [run |-> rruns, start |-> rargs.start,
                                end |-> rargs.end, key |-> rargs.key,
                                rows |-> rargs.rows,
                                cnt |-> ridx - 1])
    /\ rpc' = "idle"
    /\ UNCHANGED <<evars, kvars, rargs, rbatch, ridx, rruns, fvars, lvars, dvars, cvars, svars,
                   bvars, queue, faults>>

ReplayStep ==
    \/ \E start, end \in 0..(MaxTs + 1) : \E key \in ReplayKeys : RSelect(start, end, key)
    \/ RPublish
    \/ RPublishFail
    \/ RReturn

----------------------------------------------------------------------------
(* The queue consumer: BaseConsumer.process_batch and EventProcessor. *)

Processors == {"EventProcessor", "other"}

NoKStats == [received |-> 0, processed |-> 0, failed |-> 0]

\* the messages a receive can return: sent and not deleted (a message
\* received and not deleted is visible again after the visibility timeout)
Visible == DOMAIN queue \ deleted

\* event.get("eventType")
EventTypeIn(body) == IF "eventType" \in DOMAIN body THEN body.eventType ELSE "None"

\* event.get("payload", {}).get("tickers", []) of a SOCIAL.MENTIONS event,
\* the tickers _process_social_mentions stores an artifact for
TickersToStore(body) ==
    IF EventTypeIn(body) = "SOCIAL.MENTIONS" /\ "payload" \in DOMAIN body
    THEN IF "tickers" \in DOMAIN body.payload THEN body.payload.tickers ELSE <<>>
    ELSE <<>>

\* the rows _process_social_mentions adds and commits: one per ticker, each
\* with a fresh artifact_id
NewArtifacts(body) ==
    {[artifact_id |-> artifactSeq + n, event_id |-> body.eventId,
      artifact_type |-> "ticker_mention", ticker |-> TickersToStore(body)[n]]
       : n \in DOMAIN TickersToStore(body)}

\* what process_event can do with a body: EventProcessor returns True, or
\* raises when its transaction fails; another subclass of BaseConsumer may
\* also return False
ProcessResults(body) ==
    IF kcfg = "EventProcessor"
    THEN IF TickersToStore(body) = <<>> THEN {"true"} ELSE {"true", "raised"}
    ELSE {"true", "false", "raised"}

\* variant: the message deleted whatever process_event did
AckedAlways(i, result) == {i}

\* the messages process_batch deletes after process_event: the message, if
\* process_event returned True
Acked(i, result) == IF result = "true" THEN {i} ELSE {}

\* run() has not been called
LoopOff ==
    [pc |-> "off", max_iterations |-> 0, iterations |-> 0, running |-> FALSE,
     calls |-> 0, failed |-> 0, backoffs |-> 0, mark |-> 0, how |-> "none"]

\* no consumer has run
ConsumerUnused ==
    /\ kcfg = "EventProcessor"
    /\ kpc = "idle"
    /\ kbatch = <<>>
    /\ kidx = 1
    /\ kstats = NoKStats
    /\ kruns = 0
    /\ kret = <<>>
    /\ khist = <<>>
    /\ deleted = {}
    /\ artifacts = {}
    /\ artifactSeq = 0
    /\ kloop = LoopOff

\* process_batch is called: receive_messages returns up to batch_size of the
\* visible messages
KReceive(B) ==
    /\ kpc = "idle"
    /\ kruns < MaxBatches
    /\ B \subseteq Visible
    /\ Cardinality(B) <= MaxReceive
    /\ kruns' = kruns + 1
    /\ kbatch' = Ascending(B)
    /\ kidx' = 1
    /\ kstats' = [NoKStats EXCEPT !.received = Cardinality(B)]
    /\ kpc' = "process"
    /\ UNCHANGED <<kloop, kcfg, kret, khist, deleted, artifacts, artifactSeq, evars, rvars, fvars,
                   lvars, dvars, cvars, svars, bvars, queue, faults>>

\* the body and the queue position of the message process_batch is at
KMsg == kbatch[kidx]

KBody == queue[KMsg].body

\* one message handled: process_event with `result`, then the delete, the
\* stats and the history
KHandle(result, delete_ok) ==
    /\ kpc = "process"
    /\ kidx <= Len(kbatch)
    /\ result \in ProcessResults(KBody)
    /\ artifacts' = IF result = "true" /\ kcfg = "EventProcessor"
                     THEN artifacts \cup NewArtifacts(KBody) ELSE artifacts
    /\ artifactSeq' = IF result = "true" /\ kcfg = "EventProcessor"
                       THEN artifactSeq + Len(TickersToStore(KBody)) ELSE artifactSeq
    /\ deleted' = IF delete_ok THEN deleted \cup Acked(KMsg, result) ELSE deleted
    /\ kstats' = IF result = "true" /\ delete_ok
                  THEN Bump(kstats, "processed") ELSE Bump(kstats, "failed")
    /\ khist' = Append(khist, [run |-> kruns, msg |-> KMsg, result |-> result,
                                acked |-> delete_ok /\ result = "true"])
    /\ kidx' = kidx + 1
    /\ UNCHANGED <<kloop, kcfg, kpc, kbatch, kruns, kret, evars, rvars, fvars, lvars, dvars, cvars,
                   svars, bvars, queue>>

\* process_event returned True and the message was deleted
KProcessed ==
    /\ KHandle("true", TRUE)
    /\ faults' = faults

\* process_event returned True and delete_message raised: the handler counts
\* the message as failed
KDeleteFail ==
    /\ faults < MaxFaults
    /\ faults' = faults + 1
    /\ KHandle("true", FALSE)

\* process_event returned False
KRejected ==
    /\ KHandle("false", TRUE)
    /\ faults' = faults

\* process_event (or json.loads) raised: the scope rolled back
KRaised ==
    /\ faults < MaxFaults
    /\ faults' = faults + 1
    /\ KHandle("raised", TRUE)

\* the batch is exhausted: process_batch returns its stats
KReturn ==
    /\ kpc = "process"
    /\ kidx > Len(kbatch)
    /\ kret' = Append(kret, kstats)
    /\ kpc' = "idle"
    /\ UNCHANGED <<kloop, kcfg, kbatch, kidx, kstats, kruns, khist, deleted, artifacts,
                   artifactSeq, evars, rvars, fvars, lvars, dvars, cvars, svars, bvars,
                   queue, faults>>

ConsumerStep ==
    \/ \E B \in SUBSET Visible : KReceive(B)
    \/ KProcessed
    \/ KDeleteFail
    \/ KRejected
    \/ KRaised
    \/ KReturn

----------------------------------------------------------------------------
(* The consumer loop: BaseConsumer.run and stop. *)

\* a step of the loop outside process_batch
LoopOnly ==
    UNCHANGED <<kcfg, kpc, kbatch, kidx, kstats, kruns, kret, khist, deleted, artifacts,
                artifactSeq, evars, rvars, fvars, lvars, dvars, cvars, svars, bvars,
                queue>>

\* run(max_iterations = n)
LoopRun(n) ==
    /\ kloop.pc = "off"
    /\ kloop' = [LoopOff EXCEPT !.pc = "top", !.max_iterations = n, !.running = TRUE]
    /\ faults' = faults
    /\ LoopOnly

\* while self._running: process_batch is called
LoopCall ==
    /\ kloop.pc = "top"
    /\ kloop.running
    /\ kloop' = [kloop EXCEPT !.pc = "call", !.calls = @ + 1, !.mark = kruns]
    /\ faults' = faults
    /\ LoopOnly

\* while self._running: stop() was called, the loop ends
LoopExit ==
    /\ kloop.pc = "top"
    /\ ~kloop.running
    /\ kloop' = [kloop EXCEPT !.pc = "done", !.how = "stop"]
    /\ faults' = faults
    /\ LoopOnly

\* the call of process_batch has not received yet
LoopBeforeReceive == kloop.pc = "call" /\ kpc = "idle" /\ kruns = kloop.mark

\* the call of process_batch has returned
LoopAfterReturn == kloop.pc = "call" /\ kpc = "idle" /\ kruns = kloop.mark + 1

\* variant: a failed call counted as an iteration
IterationsCountFailed(l) == l.iterations + 1

\* iterations after process_batch raised: `iterations += 1` is skipped
IterationsAfterRaise(l) == l.iterations

\* process_batch returned: iterations += 1 and the max_iterations test
LoopReturned ==
    /\ LoopAfterReturn
    /\ kloop' = IF kloop.max_iterations > 0 /\ kloop.iterations + 1 >= kloop.max_iterations
                 THEN [kloop EXCEPT !.iterations = @ + 1, !.pc = "done", !.how = "max",
                                    !.running = FALSE]
                 ELSE [kloop EXCEPT !.iterations = @ + 1, !.pc = "top"]
    /\ faults' = faults
    /\ LoopOnly

\* process_batch raised (receive_messages failed): logged, time.sleep(5),
\* back to the loop test
LoopRaise ==
    /\ LoopBeforeReceive
    /\ faults < MaxFaults
    /\ faults' = faults + 1
    /\ kloop' = [kloop EXCEPT !.failed = @ + 1, !.backoffs = @ + 1,
                               !.iterations = IterationsAfterRaise(kloop),
                               !.pc = "top"]
    /\ LoopOnly

\* stop() is called from outside the loop
LoopStop ==
    /\ kloop.pc \in {"top", "call"}
    /\ kloop.running
    /\ kloop' = [kloop EXCEPT !.running = FALSE]
    /\ faults' = faults
    /\ LoopOnly

\* KeyboardInterrupt: process_batch is abandoned where it is, the loop breaks
LoopInterrupt ==
    /\ kloop.pc \in {"top", "call"}
    /\ kloop' = [kloop EXCEPT !.pc = "done", !.how = "interrupt", !.running = FALSE]
    /\ kpc' = "idle"
    /\ UNCHANGED <<kcfg, kbatch, kidx, kstats, kruns, kret, khist, deleted, artifacts,
                   artifactSeq, evars, rvars, fvars, lvars, dvars, cvars, svars, bvars,
                   queue, faults>>

\* process_batch inside the loop
LoopReceive(B) == LoopBeforeReceive /\ KReceive(B)

LoopProcessed == kloop.pc = "call" /\ KProcessed

LoopDeleteFail == kloop.pc = "call" /\ KDeleteFail

LoopRaised == kloop.pc = "call" /\ KRaised

LoopBatchReturn == kloop.pc = "call" /\ KReturn

----------------------------------------------------------------------------
(* Specifications. *)

\* a connector as the constructor can be given it: the CLI passes a bus only
\* in emit mode with a queue URL, the constructor takes any combination
ConnConfigs(kinds, sources) ==
    [kind : kinds, source : sources, mode : {"shadow", "emit"}, bus : BOOLEAN]

\* the source of an adapter: the mock's hard-coded post, else a live listing
DefaultSource(kind) == IF kind = "mock" THEN Fixed(<<1>>) ELSE Live

\* a cik the state store has no row for
NoCikState == [last_etag |-> NULL, last_modified |-> NULL, last_poll_at |-> 0]

InitProgram ==
    /\ events = {} /\ outbox = {} /\ outboxSeq = 0
    /\ pending = [c \in Conns |-> NoRows]
    /\ rawBlobs = {} /\ canonBlobs = {}
    /\ queue = <<>>
    /\ cpc = [c \in Conns |-> "idle"]
    /\ cpos = [c \in Conns |-> 0]
    /\ cur = [c \in Conns |-> NoRecord]
    /\ nrec = [c \in Conns |-> 0]
    /\ stats = [c \in Conns |-> ZeroStats]
    /\ cycles = [c \in Conns |-> 0]
    /\ returned = [c \in Conns |-> <<>>]
    /\ resp = [c \in Conns |-> 0]
    /\ seen_ids = [c \in Conns |-> {}]
    /\ outcome = {}
    /\ seen_filings = {}
    /\ cik_state = [k \in Ciks |-> NoCikState]
    /\ fcik = [c \in Conns |-> 0]
    /\ consecutive_errors = [c \in Conns |-> 0]
    /\ sleeps = [c \in Conns |-> <<>>]
    /\ answers = [c \in Conns |-> <<>>]
    /\ yielded = <<>>
    /\ ReplayUnused
    /\ ConsumerUnused
    /\ CliPassed
    /\ faults = 0
    /\ dbatch = [d \in Disps |-> <<>>]
    /\ didx = [d \in Disps |-> 1]
    /\ dmarked = [d \in Disps |-> {}]
    /\ dret = [d \in Disps |-> 0]
    /\ dcycles = [d \in Disps |-> 0]
    /\ clock = 0
    /\ aborted = [d \in Disps |-> NoAbort]

InitCommon ==
    /\ LimiterUnused
    /\ InitProgram

\* the options of the dispatch-outbox command
DispConfigs ==
    [batch_size : 1..MaxBatch, interval : {0, 5}, max_cycles : {0, 2}]

\* no dispatcher runs
NoDispatcher ==
    /\ dcfg = [batch_size |-> 1, interval |-> 0, max_cycles |-> 0]
    /\ dpc = [d \in Disps |-> "exited"]

\* two connectors of one kind (mock or forum adapters) against one store
Init ==
    /\ InitCommon
    /\ \E k \in {"mock", "forum"} :
          /\ cfg \in [Conns -> ConnConfigs({k}, {"wsb"})]
          /\ fixture = [c \in Conns |-> DefaultSource(k)]
    /\ watch = <<>>
    /\ NoDispatcher

Next ==
    \E c \in Conns : ConnectorStep(c)

Spec == Init /\ [][Next]_vars

\* the store after one emit-mode connector with a bus ingested n records:
\* n event rows, n unpublished outbox rows with ids 1..n
SeededRecord(i, ts_event) ==
    [id |-> i, event_id |-> <<"c1", i>>, dedupe_key |-> <<"reddit", i>>,
     event_type |-> EventTypeOf("forum"), ts_event |-> ts_event,
     payload |-> PayloadOf("forum", i)]

\* the same store, the i-th record with the timestamps tse[i] and tsi[i]
SeededStoreAt(n, tse, tsi) ==
    /\ events = {[event_id |-> <<"c1", i>>, dedupe_key |-> <<"reddit", i>>,
                  by |-> "c1", event_type |-> EventTypeOf("forum"),
                  ts_event |-> tse[i], ts_ingested |-> tsi[i],
                  payload_json |-> PayloadOf("forum", i)]
                   : i \in 1..n}
    /\ outbox = {[outbox_id |-> i, event_id |-> <<"c1", i>>,
                  payload |-> Canonical(SeededRecord(i, tse[i]), tsi[i]),
                  published_at |-> NULL]
                   : i \in 1..n}
    /\ outboxSeq = n

SeededStore(n) == SeededStoreAt(n, [i \in 1..n |-> i], [i \in 1..n |-> 1])

\* no connector has run; the consumer class is left open
InitIdleButConsumer ==
    /\ LimiterUnused
    /\ ReplayUnused
    /\ CliPassed
    /\ watch = <<>>
    /\ pending = [c \in Conns |-> NoRows]
    /\ rawBlobs = {} /\ canonBlobs = {}
    /\ queue = <<>>
    /\ cfg = [c \in Conns |-> [kind |-> "forum", source |-> "wsb", mode |-> "emit",
                               bus |-> TRUE]]
    /\ fixture = [c \in Conns |-> Live]
    /\ cpc = [c \in Conns |-> "idle"]
    /\ cpos = [c \in Conns |-> 0]
    /\ cur = [c \in Conns |-> NoRecord]
    /\ nrec = [c \in Conns |-> 0]
    /\ stats = [c \in Conns |-> ZeroStats]
    /\ cycles = [c \in Conns |-> 0]
    /\ returned = [c \in Conns |-> <<>>]
    /\ resp = [c \in Conns |-> 0]
    /\ seen_ids = [c \in Conns |-> {}]
    /\ outcome = {}
    /\ seen_filings = {}
    /\ cik_state = [k \in Ciks |-> NoCikState]
    /\ fcik = [c \in Conns |-> 0]
    /\ consecutive_errors = [c \in Conns |-> 0]
    /\ sleeps = [c \in Conns |-> <<>>]
    /\ answers = [c \in Conns |-> <<>>]
    /\ yielded = <<>>

InitIdleConnectors ==
    /\ InitIdleButConsumer
    /\ ConsumerUnused

InitDispatcherState ==
    /\ dbatch = [d \in Disps |-> <<>>]
    /\ didx = [d \in Disps |-> 1]
    /\ dmarked = [d \in Disps |-> {}]
    /\ dret = [d \in Disps |-> 0]
    /\ dcycles = [d \in Disps |-> 0]
    /\ clock = 0
    /\ aborted = [d \in Disps |-> NoAbort]
    /\ faults = 0

\* one dispatch-outbox loop over an outbox of up to MaxRows rows
InitDispatch ==
    /\ InitIdleConnectors
    /\ InitDispatcherState
    /\ \E n \in 0..MaxRows : SeededStore(n)
    /\ dcfg \in DispConfigs
    /\ dpc = [d \in Disps |-> IF d = "d1" THEN "idle" ELSE "exited"]

NextDispatch == DispatcherStep("d1")

SpecDispatch == InitDispatch /\ [][NextDispatch]_vars

\* the loop keeps running: interval > 0, no max_cycles, no crash; publish and
\* commit failures are transient (at most MaxFaults of them)
InitLive ==
    /\ InitDispatch
    /\ dcfg.interval > 0
    /\ dcfg.max_cycles = 0

NextLive ==
    \/ DSelect("d1")
    \/ DPublish("d1")
    \/ DPublishFail("d1")
    \/ DCommit("d1")
    \/ DCommitFail("d1")

\* the loop's own steps are taken as long as the process runs
LiveDispatch ==
    /\ InitLive
    /\ [][NextLive]_vars
    /\ WF_vars(DSelect("d1"))
    /\ WF_vars(DPublish("d1"))
    /\ WF_vars(DCommit("d1"))

\* one connector and one dispatcher loop against one store and one queue
InitPipeline ==
    /\ InitCommon
    /\ cfg \in [Conns -> ConnConfigs({"forum"}, {"wsb"})]
    /\ cfg["c2"] = cfg["c1"]
    /\ fixture = [c \in Conns |-> Live]
    /\ watch = <<>>
    /\ dcfg \in [batch_size : {1, MaxBatch}, interval : {5}, max_cycles : {0}]
    /\ dpc = [d \in Disps |-> IF d = "d1" THEN "idle" ELSE "exited"]

NextPipeline ==
    \/ ConnectorStep("c1")
    \/ DispatcherStep("d1")

SpecPipeline == InitPipeline /\ [][NextPipeline]_vars

\* one connector of each kind run repeatedly on the same fixture
InitRepeat ==
    /\ InitCommon
    /\ NoDispatcher
    /\ watch = <<1>>
    /\ \E k \in Kinds :
          /\ cfg \in [Conns -> ConnConfigs({k}, CASE k = "disclosure" -> {"edgar"}
                                                    [] k = "forum" -> {"wsb", "reddit"}
                                                    [] OTHER -> {"wsb"})]
          /\ cfg["c2"] = cfg["c1"]
          /\ \E f \in Feeds \ {<<>>} :
                fixture = [c \in Conns |-> IF k = "mock" THEN Fixed(<<1>>) ELSE Fixed(f)]

NextRepeat ==
    \/ ConnectorStep("c1")
    \/ FetchRaise("c1")
    \/ \E status \in {200, 304, 500} : \E hdr \in Headers : PollCik("c1", status, hdr)

SpecRepeat == InitRepeat /\ [][NextRepeat]_vars

\* one disclosure connector, as run-edgar builds it, polling a watchlist of
\* NumCiks entities whose listings are the same at every poll
InitEdgar ==
    /\ InitCommon
    /\ NoDispatcher
    /\ watch = [i \in 1..NumCiks |-> i]
    /\ cfg \in [Conns -> ConnConfigs({"disclosure"}, {"edgar"})]
    /\ cfg["c2"] = cfg["c1"]
    /\ cfg["c1"].bus = CliBus(cfg["c1"].mode, TRUE)
    /\ fixture = [c \in Conns |-> Fixed(<<1>>)]

NextEdgar ==
    \/ ConnectorStep("c1")
    \/ FetchRaise("c1")
    \/ \E status \in Statuses : \E hdr \in Headers : PollCik("c1", status, hdr)

SpecEdgar == InitEdgar /\ [][NextEdgar]_vars

\* the values of --max-rps tried, in units of 1 / RateDen: a fraction of one
\* request per second, 1, 2, 4, 8 and 10 requests per second
RateChoices == {1, RateDen, 2 * RateDen, 4 * RateDen, 8 * RateDen, 10 * RateDen}

\* the token bucket of one disclosure connector, called by its fetcher
InitLimiter ==
    /\ InitProgram
    /\ NoDispatcher
    /\ watch = <<1>>
    /\ cfg = [c \in Conns |-> [kind |-> "disclosure", source |-> "edgar",
                               mode |-> "shadow", bus |-> FALSE]]
    /\ fixture = [c \in Conns |-> Fixed(<<1>>)]
    /\ \E rate \in RateChoices : limiter = NewLimiter(rate, 0)
    /\ now = 0
    /\ lpc = Idle
    /\ grants = <<>>

NextLimiter ==
    \/ Acquire
    \/ AcquireLoop
    \/ Wake
    \/ Tick

SpecLimiter == InitLimiter /\ [][NextLimiter]_vars

\* the process runs and its clock advances
LiveLimiter ==
    /\ InitLimiter
    /\ [][NextLimiter]_vars
    /\ WF_vars(AcquireLoop)
    /\ WF_vars(Wake)
    /\ WF_vars(Tick)

\* a replay and one run of dispatch-outbox --interval 0 over a store of up to
\* MaxSeed events with timestamps up to MaxTs and their unpublished outbox rows
InitReplay ==
    /\ InitIdleConnectors
    /\ InitDispatcherState
    /\ \E n \in 1..MaxSeed :
          \E tse, tsi \in [1..n -> 1..MaxTs] : SeededStoreAt(n, tse, tsi)
    /\ dcfg = [batch_size |-> MaxBatch, interval |-> 0, max_cycles |-> 0]
    /\ dpc = [d \in Disps |-> IF d = "d1" THEN "idle" ELSE "exited"]

NextReplay ==
    \/ DSelect("d1")
    \/ DPublish("d1")
    \/ DPublishFail("d1")
    \/ DCommit("d1")
    \/ ReplayStep

SpecReplay == InitReplay /\ [][NextReplay]_vars

\* a consumer on the queue a dispatch-outbox loop fills from a store of up
\* to MaxSeed events
InitConsumer ==
    /\ InitIdleButConsumer
    /\ InitDispatcherState
    /\ \E n \in 1..MaxSeed : SeededStore(n)
    /\ dcfg = [batch_size |-> MaxBatch, interval |-> 5, max_cycles |-> 0]
    /\ dpc = [d \in Disps |-> IF d = "d1" THEN "idle" ELSE "exited"]
    /\ kcfg \in Processors
    /\ kpc = "idle"
    /\ kbatch = <<>>
    /\ kidx = 1
    /\ kstats = NoKStats
    /\ kruns = 0
    /\ kret = <<>>
    /\ khist = <<>>
    /\ deleted = {}
    /\ artifacts = {}
    /\ artifactSeq = 0
    /\ kloop = LoopOff

NextConsumer ==
    \/ DSelect("d1")
    \/ DPublish("d1")
    \/ DPublishFail("d1")
    \/ DCommit("d1")
    \/ ConsumerStep

SpecConsumer == InitConsumer /\ [][NextConsumer]_vars

\* one connector command and one dispatch-outbox command started from the
\* shell, with or without SQS_QUEUE_URL in the settings
InitCli ==
    /\ LimiterUnused
    /\ ReplayUnused
    /\ ConsumerUnused
    /\ InitDispatcherState
    /\ events = {} /\ outbox = {} /\ outboxSeq = 0
    /\ pending = [c \in Conns |-> NoRows]
    /\ rawBlobs = {} /\ canonBlobs = {}
    /\ queue = <<>>
    /\ queue_url \in BOOLEAN
    /\ clipc = [p \in Commands |-> IF p \in {"c1", "d1"} THEN "entry" ELSE "unused"]
    /\ \E k \in Kinds :
          /\ cfg = [c \in Conns |-> [kind |-> k, source |-> CliSource(k),
                                     mode |-> "shadow", bus |-> FALSE]]
          /\ fixture = [c \in Conns |-> IF k = "disclosure" THEN Fixed(<<1>>)
                                        ELSE DefaultSource(k)]
    /\ watch = <<1>>
    /\ dcfg = [batch_size |-> MaxBatch, interval |-> 5, max_cycles |-> 0]
    /\ dpc = [d \in Disps |-> IF d = "d1" THEN "idle" ELSE "exited"]
    /\ cpc = [c \in Conns |-> "idle"]
    /\ cpos = [c \in Conns |-> 0]
    /\ cur = [c \in Conns |-> NoRecord]
    /\ nrec = [c \in Conns |-> 0]
    /\ stats = [c \in Conns |-> ZeroStats]
    /\ cycles = [c \in Conns |-> 0]
    /\ returned = [c \in Conns |-> <<>>]
    /\ resp = [c \in Conns |-> 0]
    /\ seen_ids = [c \in Conns |-> {}]
    /\ outcome = {}
    /\ seen_filings = {}
    /\ cik_state = [k \in Ciks |-> NoCikState]
    /\ fcik = [c \in Conns |-> 0]
    /\ consecutive_errors = [c \in Conns |-> 0]
    /\ sleeps = [c \in Conns |-> <<>>]
    /\ answers = [c \in Conns |-> <<>>]
    /\ yielded = <<>>

\* the body of a connector command after its entry: run_once
CliRunOnce(c) ==
    /\ clipc[c] = "running"
    /\ \/ ConnectorStep(c)
       \/ \E status \in {200, 304, 500} : \E hdr \in Headers : PollCik(c, status, hdr)

\* the body of dispatch-outbox after its entry: the dispatch loop
CliDispatchLoop(d) ==
    /\ clipc[d] = "running"
    /\ DispatcherStep(d)

NextCli ==
    \/ \E m \in {"shadow", "emit"} : CliConnector("c1", m)
    \/ CliDispatch("d1")
    \/ CliRunOnce("c1")
    \/ CliDispatchLoop("d1")

SpecCli == InitCli /\ [][NextCli]_vars

\* the core against one store and one queue: a connector run twice on the
\* same post, a one-shot dispatcher, a replay of the whole table and the
\* consumer receiving every visible message
InitCore ==
    /\ InitCommon
    /\ \E k \in {"mock", "forum"} :
          cfg = [c \in Conns |-> [kind |-> k, source |-> "wsb", mode |-> "emit",
                                  bus |-> TRUE]]
    /\ fixture = [c \in Conns |-> Fixed(<<1>>)]
    /\ watch = <<>>
    /\ dcfg = [batch_size |-> MaxBatch, interval |-> 0, max_cycles |-> 0]
    /\ dpc = [d \in Disps |-> IF d = "d1" THEN "idle" ELSE "exited"]

NextCore ==
    \/ ConnectorStep("c1")
    \/ DSelect("d1")
    \/ DPublish("d1")
    \/ DPublishFail("d1")
    \/ DCommit("d1")
    \/ \E key \in ReplayKeys : RSelect(1, MaxCycles + 1, key)
    \/ RPublish
    \/ RPublishFail
    \/ RReturn
    \/ KReceive(Visible)
    \/ KProcessed
    \/ KDeleteFail
    \/ KRaised
    \/ KReturn

SpecCore == InitCore /\ [][NextCore]_vars

\* one connector whose adapter returns no dedupeKey, run repeatedly on a
\* fixed listing
InitKeyless ==
    /\ InitCommon
    /\ NoDispatcher
    /\ watch = <<>>
    /\ \E k \in KeylessKinds :
          /\ cfg \in [Conns -> ConnConfigs({k}, {"wsb"})]
          /\ cfg["c2"] = cfg["c1"]
    /\ \E f \in Feeds \ {<<>>} : fixture = [c \in Conns |-> Fixed(f)]

NextKeyless ==
    \/ StartCycle("c1")
    \/ EndCycle("c1")
    \/ FetchNext("c1")
    \/ FetchFail("c1")
    \/ TxnCheck("c1")
    \/ Flush("c1")
    \/ Commit("c1")
    \/ TxnFail("c1")
    \/ Canon("c1")
    \/ CanonFail("c1")

SpecKeyless == InitKeyless /\ [][NextKeyless]_vars

\* one connector loop (run-connector-loop, run-reddit) that the operator
\* may interrupt at any point
InitInterrupt ==
    /\ InitCommon
    /\ NoDispatcher
    /\ watch = <<>>
    /\ \E k \in {"mock", "forum"} :
          /\ cfg \in [Conns -> ConnConfigs({k}, {"wsb"})]
          /\ cfg["c2"] = cfg["c1"]
          /\ fixture = [c \in Conns |-> DefaultSource(k)]

NextInterrupt ==
    \/ ConnectorStep("c1")
    \/ Interrupt("c1")

SpecInterrupt == InitInterrupt /\ [][NextInterrupt]_vars

\* two dispatch-outbox processes against one outbox of up to MaxRows rows,
\* with no failure in either
InitPair ==
    /\ InitIdleConnectors
    /\ InitDispatcherState
    /\ \E n \in 0..MaxRows : SeededStore(n)
    /\ dcfg \in DispConfigs
    /\ dpc = [d \in Disps |-> "idle"]

NextPair ==
    \/ DSelect("d1")
    \/ DPublish("d1")
    \/ DCommit("d1")
    \/ DSelect("d2")
    \/ DPublish("d2")
    \/ DCommit("d2")

SpecPair == InitPair /\ [][NextPair]_vars

\* the consumer loop on the queue a one-shot dispatcher fills from a store of
\* up to MaxSeed events
InitLoop ==
    /\ InitIdleConnectors
    /\ InitDispatcherState
    /\ \E n \in 1..MaxSeed : SeededStore(n)
    /\ dcfg = [batch_size |-> MaxBatch, interval |-> 0, max_cycles |-> 0]
    /\ dpc = [d \in Disps |-> IF d = "d1" THEN "idle" ELSE "exited"]

NextLoop ==
    \/ DSelect("d1")
    \/ DPublish("d1")
    \/ DCommit("d1")
    \/ \E n \in 0..MaxBatches : LoopRun(n)
    \/ LoopCall
    \/ LoopExit
    \/ LoopReturned
    \/ LoopRaise
    \/ LoopStop
    \/ LoopInterrupt
    \/ LoopReceive(Visible)
    \/ LoopProcessed
    \/ LoopDeleteFail
    \/ LoopRaised
    \/ LoopBatchReturn

SpecLoop == InitLoop /\ [][NextLoop]_vars

----------------------------------------------------------------------------
(* Properties of the connector runtime and the store. *)

\* C1: the events table holds at most one row per dedupe_key, and every record
\* counted as ingested has exactly one event row with its dedupe_key, whatever
\* the interleaving of the two connectors
C1_UniqueDedupeKey ==
    /\ \A r1, r2 \in events : r1.dedupe_key = r2.dedupe_key => r1 = r2
    /\ \A o \in outcome :
          o.what = "ingested" =>
             Cardinality({r \in events : r.dedupe_key = o.key}) = 1

\* two connectors raced on one key: no fault was injected, one counted the
\* record as ingested and the other's INSERT was refused
C1_Witness ==
    /\ faults = 0
    /\ \E o1, o2 \in outcome :
          /\ o1.conn # o2.conn
          /\ o1.key = o2.key
          /\ o1.what = "ingested"
          /\ o2.what = "errors"

\* C2: every event row committed by a connector in emit mode has exactly one
\* outbox row with the same event_id and published_at = NULL, whether or not
\* a bus object was configured
C2_EmitHasOutboxRow ==
    \A e \in events :
       cfg[e.by].mode = "emit" =>
          /\ Cardinality({o \in outbox : o.event_id = e.event_id}) = 1
          /\ \A o \in outbox : o.event_id = e.event_id => o.published_at = NULL

\* C10: a dedupe conflict is a dedupe and never an error: with no injected
\* failure no record is counted in errors, and of two connectors that
\* processed the same key one counted ingested and the other deduped
C10_ConflictIsDedupe ==
    faults = 0 =>
       /\ \A o \in outcome : o.what # "errors"
       /\ \A o1, o2 \in outcome :
             (o1.conn # o2.conn /\ o1.key = o2.key) =>
                {o1.what, o2.what} = {"ingested", "deduped"}

----------------------------------------------------------------------------
(* Properties of the dispatcher. *)

\* positions at which the queue received outbox row `id`
Receipts(id) == {i \in DOMAIN queue : queue[i].outbox_id = id}

Range(s) == {s[i] : i \in DOMAIN s}

\* C3: at-least-once delivery: every outbox row whose published_at is
\* committed non-NULL was sent to the queue; after a crash the rows sent in
\* the lost session are still NULL; and every row that was sent but is still
\* NULL is in the batch of the cycle that follows
C3_AtLeastOnce ==
    /\ \A r \in outbox : r.published_at # NULL => Receipts(r.outbox_id) # {}
    /\ dpc["d1"] = "down" =>
          \A i \in 1..(didx["d1"] - 1) :
             RowOf(dbatch["d1"][i]).published_at = NULL
    /\ dpc["d1"] = "publish" =>
          \A r \in outbox :
             (r.published_at = NULL /\ Receipts(r.outbox_id) # {}) =>
                r.outbox_id \in Range(dbatch["d1"])

\* a row was sent, its update was lost, a later cycle sent it again and
\* committed its published_at
C3_Witness ==
    \E r \in outbox :
       /\ r.published_at # NULL
       /\ Cardinality(Receipts(r.outbox_id)) >= 2

\* every committed outbox row was sent and has published_at set
C4_Delivered ==
    \A r \in outbox : r.published_at # NULL /\ Receipts(r.outbox_id) # {}

\* C4: with the loop running (interval > 0) and failures transient, every
\* outbox row is eventually sent and eventually has published_at set, and no
\* failed cycle ends the loop
C4_Liveness ==
    /\ <>[]C4_Delivered
    /\ [](dpc["d1"] # "exited")

\* a cycle failed and the loop went on to deliver every row
C4_Witness ==
    /\ faults > 0
    /\ outbox # {}
    /\ C4_Delivered
    /\ dpc["d1"] = "idle"

\* C5: a single dispatcher with no failure sends the rows in ascending
\* outbox_id order without skipping any; with failures the first receipts are
\* still in ascending order; every batch is the batch_size lowest-numbered
\* unpublished rows in ascending order, published in that order
C5_Ordering ==
    /\ faults = 0 =>
          /\ \A i, j \in DOMAIN queue :
                i < j => queue[i].outbox_id < queue[j].outbox_id
          /\ \A j \in DOMAIN queue : \A r \in outbox :
                r.outbox_id < queue[j].outbox_id => Receipts(r.outbox_id) # {}
    /\ \A i, j \in DOMAIN queue :
          (/\ i < j
           /\ \A k \in Receipts(queue[i].outbox_id) : i <= k
           /\ \A k \in Receipts(queue[j].outbox_id) : j <= k)
          => queue[i].outbox_id < queue[j].outbox_id
    /\ dpc["d1"] = "publish" =>
          LET b == dbatch["d1"]
              unpublished == {r.outbox_id : r \in {x \in outbox : x.published_at = NULL}}
              sent == didx["d1"] - 1
          IN  /\ \A i, j \in DOMAIN b : i < j => b[i] < b[j]
              /\ Range(b) \subseteq unpublished
              /\ \A u \in unpublished \ Range(b) :
                    /\ Len(b) = dcfg.batch_size
                    /\ \A x \in Range(b) : x < u
              /\ sent <= Len(queue)
              /\ \A i \in 1..sent : queue[Len(queue) - sent + i].outbox_id = b[i]

\* three rows went out in two cycles of batch_size 2 and no cycle failed
C5_Witness ==
    /\ faults = 0
    /\ dcfg.batch_size = 2
    /\ Len(queue) >= 3
    /\ \A r \in outbox : r.published_at # NULL

\* C6 (as stated): after a failed publish the rows published earlier in the
\* cycle keep their published_at, and the first row of the next cycle's batch
\* is the row whose publish failed
C6_OnlyFailingRowLost ==
    LET a == aborted["d1"]
    IN  a # NoAbort =>
           /\ \A i \in 1..(a.at - 1) : RowOf(a.batch[i]).published_at # NULL
           /\ dpc["d1"] = "publish" => dbatch["d1"][1] = a.batch[a.at]

\* C6 (amended): after a failed publish no later row was published, every
\* row of the batch is left with published_at = NULL, the rows before the
\* failing one included although they were sent, and the next cycle selects
\* the same batch again, starting at its first row
C6_WholeCycleLost ==
    LET a == aborted["d1"]
    IN  a # NoAbort =>
           /\ Len(queue) = a.qlen
           /\ \A i \in DOMAIN a.batch : RowOf(a.batch[i]).published_at = NULL
           /\ a.at - 1 <= Len(queue)
           /\ \A i \in 1..(a.at - 1) :
                 queue[Len(queue) - (a.at - 1) + i].outbox_id = a.batch[i]
           /\ dpc["d1"] = "publish" => dbatch["d1"] = a.batch

\* a publish failed at the second row of a batch or later and the next cycle
\* has selected its batch
C6_Witness ==
    /\ aborted["d1"].at >= 2
    /\ dpc["d1"] = "publish"

\* one step of the dispatcher, as far as published_at is concerned
C7_Step ==
    /\ \A r \in outbox : r.published_at # NULL => r \in outbox'
    /\ \A r \in outbox : r.published_at = NULL =>
          \E s \in outbox' : [s EXCEPT !.published_at = NULL] = r
    /\ queue' # queue =>
          RowOf(queue'[Len(queue')].outbox_id).published_at = NULL
    /\ dbatch' # dbatch =>
          \A id \in Range(dbatch'["d1"]) : RowOf(id).published_at = NULL
    /\ (\A r \in outbox : r.published_at # NULL) =>
          /\ queue' = queue
          /\ outbox' = outbox
          /\ (dpc["d1"] = "publish" /\ dpc'["d1"] \in {"idle", "exited"}
              /\ faults' = faults) => dret'["d1"] = 0

\* C7: published_at changes only from NULL to a timestamp; a row committed
\* non-NULL is never selected, published or changed again; once every row is
\* published a dispatch_once publishes nothing and returns 0
C7_MutatedOnce == [][C7_Step]_vars

\* every row was dispatched and a following dispatch_once found nothing
C7_Witness ==
    /\ outbox # {}
    /\ \A r \in outbox : r.published_at # NULL
    /\ Len(queue) >= Cardinality(outbox)
    /\ dpc["d1"] = "idle"
    /\ dbatch["d1"] = <<>>
    /\ dret["d1"] = 0

----------------------------------------------------------------------------
(* Properties of the pipeline: connector, store, dispatcher and queue. *)

\* one step of the pipeline, as far as the queue is concerned
C8_Step ==
    /\ (\/ cvars' # cvars \/ events' # events \/ pending' # pending
        \/ rawBlobs' # rawBlobs \/ canonBlobs' # canonBlobs) => queue' = queue
    /\ queue' # queue =>
          /\ dpc["d1"] = "publish"
          /\ Len(queue') = Len(queue) + 1
          /\ \E o \in outbox :
                /\ o.outbox_id = queue'[Len(queue')].outbox_id
                /\ o.event_id = queue'[Len(queue')].event_id
                /\ \E e \in events : e.event_id = o.event_id

\* C8: no step of run_once sends to the queue; a message enters the queue
\* only when the dispatcher publishes a committed outbox row, and every
\* message in the queue belongs to an event whose row is committed
C8_OnlyViaOutbox ==
    /\ [][C8_Step]_vars
    /\ [](\A i \in DOMAIN queue : \E e \in events : e.event_id = queue[i].event_id)

\* the dispatcher has published while a record of the connector was rolled
\* back and has no event row
C8_Witness ==
    /\ Len(queue) >= 1
    /\ \E o \in outcome : o.what = "errors" /\ ~Exists(o.key)

----------------------------------------------------------------------------
(* Properties of repeated runs. *)

\* the first run_once of connector c1 ingested every record of the fixture
\* and a second run_once has returned
C9_Repeated ==
    /\ Len(returned["c1"]) >= 2
    /\ returned["c1"][1].ingested = Cardinality(Range(fixture["c1"].items))

\* C9 (as stated): for a one-record fixture ingested by the first run, the
\* second run of a mock, forum or disclosure connector returns fetched = 1,
\* ingested = 0, deduped = 1
C9_SecondRunDedupes ==
    (faults = 0 /\ C9_Repeated /\ Len(fixture["c1"].items) = 1) =>
       returned["c1"][2] = [fetched |-> 1, ingested |-> 0, deduped |-> 1, errors |-> 0]

\* C9 (amended): a second run on the same fixture never ingests and adds no
\* event or outbox row; without failures the mock connector returns
\* fetched = 1, deduped = 1, while the forum connector (same instance) and the
\* disclosure connector do not yield the record again and return
\* fetched = 0, deduped = 0
C9_SecondRunNeverIngests ==
    C9_Repeated =>
       /\ returned["c1"][2].ingested = 0
       /\ Cardinality(events) = returned["c1"][1].ingested
       /\ Cardinality(outbox) <= Cardinality(events)
       /\ faults = 0 =>
             returned["c1"][2] =
                IF cfg["c1"].kind = "mock"
                THEN [fetched |-> 1, ingested |-> 0, deduped |-> 1, errors |-> 0]
                ELSE ZeroStats

\* a forum connector ingested its one-record fixture and its second run
\* fetched nothing
C9_Witness ==
    /\ faults = 0
    /\ cfg["c1"].kind = "forum"
    /\ Len(fixture["c1"].items) = 1
    /\ C9_Repeated
    /\ returned["c1"][1].ingested = 1
    /\ returned["c1"][2].fetched = 0

----------------------------------------------------------------------------
(* Properties of the disclosure fetcher inside run_once. *)

\* C11: no error propagates out of run_once: whatever fails during a cycle,
\* in fetch (the rate-limit handling and the fetch-state store included), in
\* normalize, in a blob write or in the transaction, the call returns its
\* stats map and is never ended by an exception
C11_NoErrorPropagates ==
    \A c \in Conns : cpc[c] # "raised"

----------------------------------------------------------------------------
(* Properties of the blob writes and of the modes. *)

\* connector c aborts a record before its transaction: normalize, the raw
\* blob write or the validation failed
C12_RawFailStep(c) ==
    /\ cpc[c] = "fetch"
    /\ cpc'[c] = "fetch"
    /\ stats'[c].errors = stats[c].errors + 1

\* connector c leaves the canonical blob write without having written it
C12_CanonFailStep(c) ==
    /\ cpc[c] = "canon"
    /\ cpc'[c] # "canon"
    /\ canonBlobs' = canonBlobs

C12_Step ==
    \A c \in Conns :
       /\ C12_RawFailStep(c) =>
             /\ events' = events /\ outbox' = outbox /\ pending' = pending
             /\ stats'[c].ingested = stats[c].ingested
             /\ \A r \in events' \cup pending'[c].event \cup outbox' \cup pending'[c].outbox :
                   r.event_id # <<c, nrec'[c]>>
       /\ C12_CanonFailStep(c) =>
             /\ events' = events /\ outbox' = outbox
             /\ \E e \in events' : e.event_id = cur[c].event_id
             /\ WantsOutbox(c) => \E o \in outbox' : o.event_id = cur[c].event_id
             /\ stats'[c].ingested = stats[c].ingested
             /\ stats[c].ingested >= 1
             /\ stats'[c].errors = stats[c].errors + 1
             /\ [conn |-> c, key |-> cur[c].dedupe_key, what |-> "ingested"] \in outcome'
             /\ cpc'[c] = "fetch"

\* C12: a record whose raw blob write fails is aborted and counted in errors
\* and gets no event row and no outbox row (no event row exists without its
\* raw blob); when the canonical blob write fails after the commit, the event
\* row and the outbox row stay, the record stays counted in ingested and the
\* cycle goes on with the next record
C12_BlobFailurePolicy ==
    /\ [][C12_Step]_vars
    /\ [](\A e \in events : e.event_id \in rawBlobs)

\* a canonical blob write failed: the record's row is committed, the record
\* is counted, its canonical blob is missing and the cycle has moved on
C12_Witness ==
    \E c \in Conns :
       /\ cpc[c] = "fetch"
       /\ stats[c].ingested >= 1
       /\ stats[c].errors >= 1
       /\ \E e \in events : e.event_id = cur[c].event_id
       /\ cur[c].event_id \notin canonBlobs

\* C13: a connector in shadow mode never inserts an outbox row, with or
\* without a queue client: every outbox row, committed or pending, and every
\* message in the queue belongs to an event of an emit-mode connector, and
\* with the connector in shadow mode the outbox stays as it was (empty)
C13_ShadowNoOutbox ==
    /\ \A c \in Conns : \A o \in outbox \cup pending[c].outbox :
          cfg[o.event_id[1]].mode = "emit"
    /\ \A i \in DOMAIN queue : cfg[queue[i].event_id[1]].mode = "emit"
    /\ cfg["c1"].mode = "shadow" => (outbox = {} /\ outboxSeq = 0 /\ queue = <<>>)

\* a shadow-mode connector that was given a queue client has ingested and
\* the dispatcher has looked for rows and found none
C13_Witness ==
    /\ cfg["c1"].mode = "shadow"
    /\ cfg["c1"].bus
    /\ \E o \in outcome : o.conn = "c1" /\ o.what = "ingested"
    /\ dpc["d1"] = "publish"
    /\ dbatch["d1"] = <<>>

\* C14: the forum connector as run-reddit configures it, in shadow mode, run
\* once over one valid new post, returns fetched = 1, ingested = 1,
\* deduped = 0, errors = 0 and commits one event row with the post's dedupe
\* key
C14_ForumIngest ==
    (/\ cfg["c1"].kind = "forum"
     /\ cfg["c1"].source = CliSource("forum")
     /\ cfg["c1"].mode = "shadow"
     /\ faults = 0
     /\ Len(fixture["c1"].items) = 1
     /\ Len(returned["c1"]) >= 1)
    => /\ returned["c1"][1] =
             [fetched |-> 1, ingested |-> 1, deduped |-> 0, errors |-> 0]
       /\ \E e \in events :
             e.dedupe_key = DedupeKey("forum", fixture["c1"].items[1])

----------------------------------------------------------------------------
(* Properties of the token bucket. *)

\* min(configured max_rps, 8), in units of 1 / RateDen
EffectiveRate == Min(limiter.configured, SEC_ABSOLUTE_MAX_RPS * RateDen)

\* C15 (as stated): in every window the number of acquire() calls that return
\* is at most ceil(max_rps * W) + 1. The window is taken one tick longer than
\* the distance of its first and last grant, so that grants at one reading of
\* the clock count as a window of one tick, not of length zero
C15_WindowBound ==
    \A i, j \in DOMAIN grants :
       i <= j =>
          j - i + 1 <=
             CeilDiv(limiter.configured * (grants[j] - grants[i] + 1), OneToken) + 1

\* C15 (amended): in every window of W seconds the number of acquire() calls
\* that return is at most c + c * W, c = min(max_rps, 8): the full bucket and
\* the refill of the window
C15_BurstPlusRefill ==
    \A i, j \in DOMAIN grants :
       i <= j =>
          (j - i + 1) * OneToken <=
             EffectiveRate * TicksPerSec + EffectiveRate * (grants[j] - grants[i])

\* a limiter configured with 4 requests per second granted 4 requests at one
\* reading of the clock
C15_Witness ==
    /\ limiter.configured = 4 * RateDen
    /\ \E i \in DOMAIN grants : i + 3 \in DOMAIN grants /\ grants[i + 3] = grants[i]

\* C16: rate and capacity equal min(configured max_rps, 8) from construction
\* on, tokens stays between 0 and the capacity, and no window of W seconds
\* has more than 8 + 8 * W grants
C16_HardCap ==
    /\ limiter.max_rps = EffectiveRate
    /\ limiter.max_rps <= SEC_ABSOLUTE_MAX_RPS * RateDen
    /\ 0 <= limiter.tokens
    /\ limiter.tokens <= EffectiveRate * TicksPerSec
    /\ \A i, j \in DOMAIN grants :
          i <= j =>
             (j - i + 1) * OneToken <=
                SEC_ABSOLUTE_MAX_RPS * RateDen * (TicksPerSec + grants[j] - grants[i])

\* a limiter configured above the cap has granted requests
C16_Witness ==
    /\ limiter.configured > SEC_ABSOLUTE_MAX_RPS * RateDen
    /\ Len(grants) >= 3
    /\ limiter.tokens < Capacity(limiter)

\* the time the slowest rate, 1 / RateDen requests per second, needs for one
\* token, in ticks
SlowestRefill == RateDen * TicksPerSec

\* an iteration of acquire() that finds the last refill SlowestRefill old
\* finds a token; if it does not, the bucket is full below one token and no
\* later iteration finds one
C17_RefilledBucketGrants ==
    (lpc.at = "loop" /\ now - limiter.last_refill >= SlowestRefill) =>
       Refilled(limiter, now) >= OneToken

\* C17: every call of acquire() returns as time advances, for every
\* max_rps > 0, fractions of one request per second included: a call made
\* when the clock has SlowestRefill left returns, and an iteration that finds
\* the bucket refilled for that long takes its token
C17_AcquireReturns ==
    /\ (lpc.at = "loop" /\ now + SlowestRefill <= MaxTime) ~> (lpc.at = "idle")
    /\ []C17_RefilledBucketGrants

----------------------------------------------------------------------------
(* Properties of the disclosure adapter's polling. *)

\* the last response fetch() received
LastAnswer(c) == answers[c][Len(answers[c])]

\* this step is a poll of the next entity by connector c
Polls(c) ==
    /\ cpc[c] = "fetch"
    /\ cfg[c].kind = "disclosure"
    /\ Len(answers'[c]) = Len(answers[c]) + 1

\* the entity such a step polls
Polled(c) == watch[fcik[c] + 1]

\* this step is the return of run_once by connector c
Returns(c) == Len(returned'[c]) = Len(returned[c]) + 1

C18_PollStep(c) ==
    (Polls(c) /\ LastAnswer(c)'.status = 304) =>
       /\ cik_state'[Polled(c)].last_etag = cik_state[Polled(c)].last_etag
       /\ cik_state'[Polled(c)].last_modified = cik_state[Polled(c)].last_modified
       /\ cik_state'[Polled(c)].last_poll_at # cik_state[Polled(c)].last_poll_at
       /\ \A k \in Ciks \ {Polled(c)} : cik_state'[k] = cik_state[k]
       /\ seen_filings' = seen_filings
       /\ Listed(c)' = {}

C18_ReturnStep(c) ==
    (/\ Returns(c)
     /\ cfg[c].kind = "disclosure"
     /\ \A i \in DOMAIN answers[c] : answers[c][i].status = 304) =>
       /\ returned'[c][Len(returned'[c])].fetched = 0
       /\ returned'[c][Len(returned'[c])].ingested = 0

\* C18: a 304 response changes, of the persisted fetch state, only the
\* entity's last_poll_at: its last_etag and last_modified, the other
\* entities' rows and seen_filings stay; no record is listed for the entity
\* as long as the 304 is the last response; a cycle in which every entity
\* answers 304 returns fetched = 0 and ingested = 0
C18_NotModified ==
    /\ [][\A c \in Conns : C18_PollStep(c) /\ C18_ReturnStep(c)]_vars
    /\ [](\A c \in Conns :
            (cfg[c].kind = "disclosure" /\ cpc[c] = "fetch" /\ resp[c] = 304) =>
               Listed(c) = {})

\* a cycle in which every entity of the watchlist answered 304 has returned,
\* with validators stored by an earlier cycle
C18_Witness ==
    \E c \in Conns :
       /\ cpc[c] = "idle"
       /\ Len(returned[c]) = 2
       /\ Len(answers[c]) = Len(watch)
       /\ \A i \in DOMAIN answers[c] : answers[c][i].status = 304
       /\ \A k \in Ciks : cik_state[k].last_etag # NULL /\ cik_state[k].last_poll_at = 2

\* the backoff sleep this step adds, if it adds exactly one
SleepsOnce(c) == Len(sleeps'[c]) = Len(sleeps[c]) + 1

LastSleep(c) == sleeps[c][Len(sleeps[c])]

C19_RateLimited(c) ==
    (Polls(c) /\ LastAnswer(c)'.status \in {403, 429}) =>
       IF consecutive_errors[c] + 1 < 3
       THEN \* first and second in a row: one sleep of Retry-After seconds
            /\ consecutive_errors'[c] = consecutive_errors[c] + 1
            /\ SleepsOnce(c)
            /\ LastSleep(c)'.kind = "retry"
            /\ LastAnswer(c)'.retry_after = NULL => LastSleep(c)'.secs = 60
            /\ LastAnswer(c)'.retry_after \notin {NULL, HttpDate} =>
                  LastSleep(c)'.secs = LastAnswer(c)'.retry_after
       ELSE \* third in a row: one cooldown sleep, then the counter is 0
            /\ SleepsOnce(c)
            /\ LastSleep(c)'.kind = "cooldown"
            /\ LastSleep(c)'.secs >= 8 * 60
            /\ LastSleep(c)'.secs <= 12 * 60
            /\ consecutive_errors'[c] = 0

C19_Answered(c) ==
    (Polls(c) /\ LastAnswer(c)'.status \in {200, 304}) =>
       /\ consecutive_errors'[c] = 0
       /\ sleeps'[c] = sleeps[c]

\* C19: each 429 or 403 increments consecutive_errors; the first and the
\* second in a row are followed by one sleep of Retry-After seconds (60
\* without the header), the third by one cooldown sleep of 8 to 12 minutes
\* and the counter at 0; a 200 or a 304 sets the counter to 0
C19_RateLimitMachine ==
    [][\A c \in Conns : C19_RateLimited(c) /\ C19_Answered(c)]_vars

\* the outcomes of a request that _fetch_cik logs and skips: a 5xx response
\* or a failure of the transport
SkippedStatus == {TransportFailure, 500}

C20_PollStep(c) ==
    (Polls(c) /\ LastAnswer(c)'.status \in SkippedStatus) =>
       /\ cik_state' = cik_state
       /\ seen_filings' = seen_filings
       /\ sleeps' = sleeps
       /\ consecutive_errors' = consecutive_errors
       /\ Listed(c)' = {}
       /\ stats' = stats
       \* fetch() goes on to the next entity
       /\ cpc'[c] = "fetch"
       /\ fcik'[c] = fcik[c] + 1

\* C20: a 5xx response or a transport failure leaves the persisted entity
\* state, seen_filings, the sleeps and consecutive_errors as they are and
\* lists no record; fetch() goes on with the next entity, run_once returns
\* only when every entity of the watchlist has been requested, and every
\* cycle requests the entities from the first one on, in the order of the
\* watchlist
C20_SkipEntity ==
    /\ [][\A c \in Conns :
            /\ C20_PollStep(c)
            /\ Polls(c) => fcik[c] = Len(answers[c])
            /\ (Returns(c) /\ cfg[c].kind = "disclosure") =>
                  Len(answers[c]) = Len(watch)]_vars
    /\ [](\A c \in Conns :
            (/\ cfg[c].kind = "disclosure"
             /\ cpc[c] = "fetch"
             /\ resp[c] \in SkippedStatus) => Listed(c) = {})

\* the first entity was skipped and the second one polled and ingested in a
\* cycle that returned; the next cycle requests the first entity again, and
\* its request fails, its state still as it was before both cycles
C20_Witness ==
    \E c \in Conns :
       /\ Len(returned[c]) = 1
       /\ returned[c][1].fetched = 1
       /\ cik_state[watch[1]] = NoCikState
       /\ cik_state[watch[2]].last_poll_at = 1
       /\ cpc[c] = "fetch"
       /\ Len(answers[c]) = 1
       /\ LastAnswer(c).status \in SkippedStatus
       /\ sleeps[c] = <<>>

\* C21: over all cycles on one fetch-state store the disclosure adapter
\* yields no (cik, accession) pair twice, a pair listed twice in one response
\* included; every pair is in seen_filings from the step that yields it on;
\* no step takes a pair out of seen_filings
C21_YieldedOnce ==
    /\ [](\A i, j \in DOMAIN yielded : i < j => yielded[i] # yielded[j])
    /\ [](\A i \in DOMAIN yielded : yielded[i] \in seen_filings)
    /\ [][seen_filings \subseteq seen_filings']_vars

\* a filing listed twice in every response was yielded in the first cycle and
\* skipped, both times, by a second poll that answered 200
C21_Witness ==
    /\ cfg["c1"].kind = "disclosure"
    /\ fixture["c1"].items = <<1, 1>>
    /\ Len(yielded) = 1
    /\ cycles["c1"] = 1
    /\ cpc["c1"] = "fetch"
    /\ resp["c1"] = 200
    /\ cpos["c1"] = 2

----------------------------------------------------------------------------
(* Properties of the replay engine. *)

\* the messages replay number `run` put on the queue, in the order of receipt
ReplayedBy(run) == SelectSeq(queue, LAMBDA m : m.via = "replay" /\ m.run = run)

\* the event row a message came from
EventOf(m) == CHOOSE e \in events : e.event_id = m.event_id

\* C22: a replay that returned has published exactly the event rows whose
\* chosen timestamp lies in [start, end], both ends included, each once, in
\* non-decreasing order of that timestamp, and has returned their number
C22_ReplayWindowInOrder ==
    \A h \in {rdone[i] : i \in DOMAIN rdone} :
       LET msgs == ReplayedBy(h.run)
           want == {e \in h.rows : h.start <= Ts(e, h.key) /\ Ts(e, h.key) <= h.end}
       IN  /\ {msgs[i].event_id : i \in DOMAIN msgs} = {e.event_id : e \in want}
           /\ Len(msgs) = Cardinality(want)
           /\ h.cnt = Len(msgs)
           /\ \A i, j \in DOMAIN msgs :
                 i < j => Ts(EventOf(msgs[i]), h.key) <= Ts(EventOf(msgs[j]), h.key)

\* a replay by ts_ingested over a window that holds both events returned 2;
\* the event ingested first is the one with the later ts_event
C22_Witness ==
    /\ Len(rdone) = 1
    /\ rdone[1].key = "ts_ingested"
    /\ rdone[1].cnt = 2
    /\ \E e1, e2 \in events :
          /\ e1.ts_ingested < e2.ts_ingested
          /\ e1.ts_event > e2.ts_event
          /\ rdone[1].start < e1.ts_ingested
          /\ rdone[1].end > e2.ts_ingested

\* this step is a step of the replay
ReplaySteps == rvars' # rvars

\* C23: no step of a replay, one that fails on a publish error included,
\* inserts an outbox row, changes an outbox row or an event row, or changes
\* what the dispatcher's select returns
C23_ReplayLeavesStore ==
    [][ReplaySteps =>
          /\ outbox' = outbox
          /\ events' = events
          /\ outboxSeq' = outboxSeq
          /\ pending' = pending
          /\ \A n \in 1..MaxBatch : SelectBatch(n)' = SelectBatch(n)]_vars

\* a replay failed on its second publish while outbox rows were unpublished
C23_Witness ==
    /\ rpc = "failed"
    /\ ridx = 2
    /\ \E r \in outbox : r.published_at = NULL
    /\ \E i \in DOMAIN queue : queue[i].via = "replay"

\* C24: every body on the queue is a canonical event JSON, with its eventId,
\* and the bodies published for one event, by the dispatcher or by a replay,
\* are equal
C24_BodiesCanonical ==
    /\ \A i \in DOMAIN queue :
          /\ "eventId" \in DOMAIN queue[i].body
          /\ "dedupeKey" \in DOMAIN queue[i].body
    /\ \A i, j \in DOMAIN queue :
          queue[i].event_id = queue[j].event_id => queue[i].body = queue[j].body

----------------------------------------------------------------------------
(* Properties of the queue consumer. *)

\* the artifact rows stored for an event
ArtifactsOf(event_id) == {a \in artifacts : a.event_id = event_id}

\* C25: EventProcessor is idempotent on event_id: however often the message
\* of an event is processed, the event has the artifact rows one processing
\* leaves, one per ticker of its payload.
C25_IdempotentOnEventId ==
    kcfg = "EventProcessor" =>
        \A e \in events :
            Cardinality(ArtifactsOf(e.event_id)) <= Len(e.payload_json.tickers)

\* the handlings of the messages of the run-th process_batch call
HandledIn(run) == SelectSeq(khist, LAMBDA h : h.run = run)

\* a step of process_batch that handles one message
Handles == khist' # khist

\* C26: process_batch deletes a message only after process_event returned
\* True for it; a message whose processing returned False or raised is not
\* deleted and stays visible for redelivery; every message of the batch is
\* handled whatever happened to the ones before it; and the returned stats
\* satisfy received = processed + failed.
C26_DeleteOnSuccess ==
    /\ [](\A i \in deleted :
            \E k \in DOMAIN khist : khist[k].msg = i /\ khist[k].result = "true")
    /\ [][Handles =>
            LET h == khist'[Len(khist')]
            IN  /\ h.result # "true" => deleted' = deleted /\ h.msg \in Visible'
                /\ deleted' \subseteq deleted \cup {h.msg}]_vars
    /\ [](\A r \in DOMAIN kret :
            /\ Len(HandledIn(r)) = kret[r].received
            /\ kret[r].received = kret[r].processed + kret[r].failed
            /\ kret[r].processed = Len(SelectSeq(HandledIn(r), LAMBDA h : h.acked)))

\* a batch of two returned: the first message failed, the second was
\* processed and deleted, the first is still visible
C26_Witness ==
    /\ Len(kret) = 1
    /\ kret[1] = [received |-> 2, processed |-> 1, failed |-> 1]
    /\ khist[1].result = "raised"
    /\ khist[2].result = "true"
    /\ khist[1].msg \in Visible
    /\ khist[2].msg \in deleted

----------------------------------------------------------------------------
(* Properties of the transaction scope. *)

\* connector c leaves its scope normally with rows to commit
ScopeCommits(c) == cpc[c] = "commit" /\ cpc'[c] = "canon"

\* an error leaves the scope of connector c and reaches the record handler
ScopeFails(c) ==
    /\ cpc[c] \in {"txn", "flush", "commit"}
    /\ cpc'[c] = "fetch"
    /\ stats'[c].errors = stats[c].errors + 1

\* C27: the scope commits on normal exit (the rows added inside become
\* visible together), rolls back on a failure inside the block or in the
\* commit and hands it to the caller (none of the rows added inside is
\* visible afterwards, the record is counted in errors), and is closed on
\* every path: a transaction is open only while one record is written and
\* holds only that record's rows.
C27_ScopedTransactions ==
    /\ [][\A c \in Conns :
            /\ ScopeCommits(c) =>
                  /\ events' = events \cup pending[c].event
                  /\ outbox' = outbox \cup pending[c].outbox
                  /\ pending'[c] = NoRows
            /\ ScopeFails(c) =>
                  /\ events' = events
                  /\ outbox' = outbox
                  /\ pending'[c] = NoRows
                  /\ [conn |-> c, key |-> cur[c].dedupe_key, what |-> "errors"]
                        \in outcome']_vars
    /\ [](\A c \in Conns :
            /\ pending[c] # NoRows => cpc[c] = "commit"
            /\ \A r \in pending[c].event \cup pending[c].outbox :
                  r.event_id = cur[c].event_id)
    /\ [](\A d \in Disps : dpc[d] \in {"idle", "exited"} => dmarked[d] = {})

\* the commit of an emit-mode record failed after its rows were flushed: an
\* outbox_id was drawn, no row is visible, the record is counted in errors
C27_Witness ==
    /\ cfg["c1"].mode = "emit" /\ cfg["c1"].bus
    /\ cpc["c1"] = "fetch"
    /\ outboxSeq = 1
    /\ events = {} /\ outbox = {}
    /\ pending["c1"] = NoRows
    /\ stats["c1"] = [fetched |-> 1, ingested |-> 0, deduped |-> 0, errors |-> 1]

----------------------------------------------------------------------------
(* Properties of the operator commands. *)

\* C28: a command that needs the queue - a connector command in emit mode,
\* dispatch-outbox - and finds SQS_QUEUE_URL unset exits with code 1 at its
\* entry, before it ingests or dispatches anything.
C28_MissingQueueUrlIsFatal ==
    ~queue_url =>
        /\ \A c \in Conns :
              clipc[c] \in {"running", "exit1"} /\ cfg[c].mode = "emit" =>
                 /\ clipc[c] = "exit1"
                 /\ cycles[c] = 0 /\ cpc[c] = "idle"
        /\ \A d \in Disps :
              clipc[d] \in {"running", "exit1"} => clipc[d] = "exit1" /\ dcycles[d] = 0

----------------------------------------------------------------------------
(* Properties of the events table. *)

\* C29: event rows are immutable once committed: no step of a connector
\* (one that dedupes against the row included), of the dispatcher, of a
\* replay or of the consumer changes a field of an existing event row or
\* deletes it; the events table only grows.
C29_EventsImmutable == [][\A r \in events : r \in events']_vars

\* the row of post 1 after a second run deduped against it, the dispatcher
\* published it, a replay re-published it and the consumer handled a message
C29_Witness ==
    /\ Cardinality(events) = 1
    /\ stats["c1"].deduped = 1
    /\ \E i \in DOMAIN queue : queue[i].via = "dispatcher"
    /\ \E i \in DOMAIN queue : queue[i].via = "replay"
    /\ Len(khist) >= 1
    /\ \A r \in outbox : r.published_at # NULL

----------------------------------------------------------------------------
(* Properties of the synthesized dedupe key. *)

\* what the first run_once over `items` returns when every record gets its
\* key and nothing fails: equal content is deduped, different content ingested
KeylessStats(items) ==
    [fetched |-> Len(items), ingested |-> Cardinality(Range(items)),
     deduped |-> Len(items) - Cardinality(Range(items)), errors |-> 0]

\* C30: a record whose adapter omits dedupeKey gets the sha256 of its stable
\* encoding as key and is ingested, with or without tsEvent in the normalized
\* record: without faults the first run over a listing counts no error,
\* ingests each distinct content once and dedupes each repetition.
C30_SynthesizedKey ==
    \A c \in Conns :
        /\ cfg[c].kind \in KeylessKinds
        /\ faults = 0
        /\ Len(returned[c]) >= 1
        => returned[c][1] = KeylessStats(fixture[c].items)

----------------------------------------------------------------------------
(* Properties of concurrent writers and readers of the outbox. *)

\* C31: outbox_id order is commit order: a transaction that commits makes
\* visible only outbox rows whose outbox_id is larger than that of every
\* row already visible, so no unpublished row appears below a row a
\* dispatcher has already selected.
C31_OutboxIdIsCommitOrder ==
    [][\A id \in OutboxIds(outbox') \ OutboxIds(outbox) :
          \A s \in outbox : s.outbox_id < id]_vars

----------------------------------------------------------------------------
(* Properties of the loops under an interrupt. *)

\* the last record connector c took from fetch has its raw blob and neither
\* an event row nor a count in deduped or errors
HalfProcessed(c) ==
    /\ cur[c].event_id \in rawBlobs
    /\ ~\E e \in events : e.event_id = cur[c].event_id
    /\ ~\E o \in outcome : o.conn = c /\ o.key = cur[c].dedupe_key

\* C32: an interrupted connector loop finishes the record in flight before
\* it exits: when the loop has stopped, the last record taken from fetch is
\* not half processed.
C32_InterruptFinishesRecord ==
    \A c \in Conns : cpc[c] = "stopped" => ~HalfProcessed(c)

----------------------------------------------------------------------------
(* Properties of the per-record handler. *)

\* connector c counts an error for a record before its commit: normalize,
\* the raw blob write, the validation or the store failed
RecordFails(c) ==
    /\ cpc[c] \in {"fetch", "txn", "flush", "commit"}
    /\ stats'[c].errors # stats[c].errors

\* the record fails while it is taken from fetch (1) or later (0)
TakenNow(c) == IF cpc[c] = "fetch" THEN 1 ELSE 0

\* C33: an exception raised for a record by normalize, by the validation or
\* by the store is caught for that record: errors grows by exactly 1 and no
\* other counter moves, the record has no event row and no outbox row (its
\* transaction is rolled back), and the cycle goes on with the next record in
\* iteration order.
C33_PerRecordIsolation ==
    [][\A c \in Conns :
         RecordFails(c) =>
            /\ stats'[c] = [stats[c] EXCEPT !.errors = @ + 1,
                                            !.fetched = @ + TakenNow(c)]
            /\ events' = events
            /\ outbox' = outbox
            /\ pending'[c] = NoRows
            /\ \A r \in events' \cup outbox' : r.event_id # <<c, nrec'[c]>>
            /\ cpc'[c] = "fetch"
            /\ cpos'[c] = cpos[c] + TakenNow(c)]_vars

\* in one cycle over posts 1 and 2 the transaction of post 1 failed and
\* post 2 was ingested
C33_Witness ==
    /\ cfg["c1"].kind = "forum"
    /\ fixture["c1"].items = <<1, 2>>
    /\ cycles["c1"] = 0
    /\ stats["c1"] = [fetched |-> 2, ingested |-> 1, deduped |-> 0, errors |-> 1]
    /\ {e.dedupe_key : e \in events} = {<<"reddit", 2>>}
    /\ nrec["c1"] = 2
    /\ rawBlobs = {<<"c1", 1>>, <<"c1", 2>>}

----------------------------------------------------------------------------
(* Properties of the order of effects in a cycle. *)

\* the event_ids of the rows in a table
EventIds(rows) == {r.event_id : r \in rows}

\* every effect of a step belongs to the latest record of one connector, at
\* the position of that effect in run_once
C34_Step ==
    /\ rawBlobs' # rawBlobs =>
          \E c \in Conns :
             /\ cpc[c] = "fetch"
             /\ nrec'[c] = nrec[c] + 1
             /\ rawBlobs' = rawBlobs \cup {<<c, nrec'[c]>>}
    /\ events' # events =>
          \E c \in Conns :
             /\ cpc[c] = "commit" /\ cpc'[c] = "canon"
             /\ EventIds(events') = EventIds(events) \cup {<<c, nrec[c]>>}
             /\ EventIds(outbox') \ EventIds(outbox) =
                   IF WantsOutbox(c) THEN {<<c, nrec[c]>>} ELSE {}
             /\ <<c, nrec[c]>> \in rawBlobs
             /\ <<c, nrec[c]>> \notin canonBlobs
    /\ canonBlobs' # canonBlobs =>
          \E c \in Conns :
             /\ cpc[c] = "canon"
             /\ canonBlobs' = canonBlobs \cup {<<c, nrec[c]>>}

\* C34: per record the raw blob is written first, then the transaction
\* commits the event row together with the outbox row, then the canonical
\* blob is written, and records are handled in fetch order; so a canonical
\* blob exists only for a committed event row and every committed event row
\* has its raw blob.
C34_StepOrder ==
    /\ [][C34_Step]_vars
    /\ [](canonBlobs \subseteq EventIds(events))
    /\ [](EventIds(events) \subseteq rawBlobs)
    /\ [](EventIds(outbox) \subseteq EventIds(events))

\* two records of one cycle went through all three steps
C34_Witness ==
    /\ cycles["c1"] = 0
    /\ cpc["c1"] = "fetch"
    /\ WantsOutbox("c1")
    /\ canonBlobs = {<<"c1", 1>>, <<"c1", 2>>}
    /\ EventIds(outbox) = canonBlobs

----------------------------------------------------------------------------
(* Properties of the fetcher's cooldown and conditional requests. *)

\* this poll by connector c ends in a cooldown sleep
EntersCooldown(c) == SleepsOnce(c) /\ LastSleep(c)'.kind = "cooldown"

\* C35: the cooldown is entered only after three rate-limit responses in a
\* row: the counter of rate-limit responses is 2 and the response is a 429
\* or 403 when a cooldown sleep starts, and every other outcome of a request
\* (200, 304, a 5xx response, a transport failure) puts the counter back to 0.
C35_CooldownOnlyAfterThreeInARow ==
    [][\A c \in Conns :
         Polls(c) =>
            /\ EntersCooldown(c) =>
                  /\ LastAnswer(c)'.status \in {403, 429}
                  /\ consecutive_errors[c] = CooldownAt - 1
            /\ LastAnswer(c)'.status \notin {403, 429} =>
                  consecutive_errors'[c] = 0]_vars

\* a poll by connector c: the request made and what the answer does to the
\* stored validators
C36_PollStep(c) ==
    Polls(c) =>
       LET a   == LastAnswer(c)'
           old == cik_state[Polled(c)]
           new == cik_state'[Polled(c)]
       IN  /\ a.acquired = 1
           /\ a.if_none_match = old.last_etag
           /\ a.if_modified_since = old.last_modified
           /\ a.status = 200 =>
                 /\ new.last_etag = IF a.etag # NULL THEN a.etag ELSE old.last_etag
                 /\ new.last_modified = IF a.last_modified # NULL THEN a.last_modified
                                        ELSE old.last_modified
           /\ a.status \in {403, 429, 500, TransportFailure} => cik_state' = cik_state
           /\ \A k \in Ciks \ {Polled(c)} : cik_state'[k] = cik_state[k]

\* C36: each request for an entity is made after one token acquire and
\* carries the stored ETag and Last-Modified of the entity as If-None-Match
\* and If-Modified-Since (none while nothing is stored); a 200 replaces each
\* stored validator it carries and leaves in place one it does not carry;
\* 429, 403, 5xx and transport failures change no stored validator; the
\* validators change in no other step.
C36_ConditionalRequests ==
    /\ [][\A c \in Conns : C36_PollStep(c)]_vars
    /\ [][(\A c \in Conns : ~Polls(c)) => cik_state' = cik_state]_vars

\* a 200 that carries a Last-Modified and no ETag answered a request sent
\* with the stored ETag: the ETag is still stored
C36_Witness ==
    /\ Len(answers["c1"]) >= 1
    /\ LastAnswer("c1").status = 200
    /\ LastAnswer("c1").if_none_match = 1
    /\ LastAnswer("c1").etag = NULL
    /\ LastAnswer("c1").last_modified = 1
    /\ cik_state[watch[fcik["c1"]]].last_etag = 1

\* C37 as stated: run(max_iterations = N) with N > 0 makes at most N calls of
\* process_batch, the calls that raise included.
C37_AtMostNCalls ==
    kloop.max_iterations > 0 => kloop.calls <= kloop.max_iterations

\* the calls of process_batch that neither returned nor raised
LoopOpenCalls == kloop.calls - kloop.iterations - kloop.failed

\* C37 (amended): run(max_iterations = N) with N > 0 stops after N calls of
\* process_batch that returned; a call that raises is not counted, it is
\* followed by one backoff and the loop goes on, so the number of calls is N
\* plus the number of failed calls; with max_iterations = 0 the loop ends only
\* through stop() or an interrupt; after stop() no call of process_batch is
\* started, the one in progress is completed.
C37_LoopTermination ==
    /\ [](kloop.max_iterations > 0 => kloop.iterations <= kloop.max_iterations)
    /\ [](kloop.backoffs = kloop.failed)
    /\ [](LoopOpenCalls = IF kloop.pc = "call" THEN 1
                          ELSE IF kloop.how = "interrupt" THEN LoopOpenCalls
                          ELSE 0)
    /\ [](LoopOpenCalls \in {0, 1})
    /\ [](kloop.pc = "done" /\ kloop.how = "max" =>
             /\ kloop.max_iterations > 0
             /\ kloop.iterations = kloop.max_iterations
             /\ kloop.calls = kloop.max_iterations + kloop.failed)
    /\ [](kloop.pc = "done" /\ kloop.max_iterations = 0 =>
             kloop.how \in {"stop", "interrupt"})
    /\ [](kloop.pc = "done" /\ kloop.how = "stop" => ~kloop.running)
    /\ [][kloop.pc # "off" /\ ~kloop.running => kloop'.calls = kloop.calls]_vars
    /\ [][kloop.pc = "call" /\ ~kloop.running /\ kruns' # kruns =>
             kloop'.pc = "call" /\ kruns' = kloop.mark + 1]_vars

\* run(2) has ended on its iteration count after three calls of process_batch,
\* one of which raised
C37_Witness ==
    /\ kloop.pc = "done"
    /\ kloop.how = "max"
    /\ kloop.max_iterations = 2
    /\ kloop.failed = 1
    /\ kloop.calls = 3

\* C38: on every return of run_once the stats satisfy
\* fetched = ingested + deduped + errors: each fetched record is counted in
\* exactly one outcome, whichever per-record failures occurred.
C38_StatsPartition ==
    \A c \in DOMAIN returned :
       \A i \in 1..Len(returned[c]) :
          LET s == returned[c][i]
          IN  s.fetched = s.ingested + s.deduped + s.errors

----------------------------------------------------------------------------
(* Properties of the disclosure adapter's record of seen filings. *)

\* run_once of connector c holds the filing f: its record is between the
\* raw blob write and the commit
FilingInFlight(c, f) ==
    /\ cfg[c].kind = "disclosure"
    /\ cpc[c] \in {"txn", "flush", "commit"}
    /\ cur[c].dedupe_key = DedupeKey("disclosure", f)

\* C39: no disclosure filing is lost to a transient failure: a filing whose
\* processing failed is yielded again by a later cycle, so every
\* (identifier, accession) in seen_filings gets its event row.  fetch skips
\* every filing recorded in seen_filings, so this requires that a recorded
\* filing has its event row or is the record run_once is processing.
C39_NoFilingLost ==
    \A f \in seen_filings :
       \/ Exists(DedupeKey("disclosure", f))
       \/ \E c \in Conns : FilingInFlight(c, f)

----------------------------------------------------------------------------
(* Properties of concurrent dispatchers. *)

\* the positions of the queue that hold the payload of outbox row `id`
SendsOf(id) ==
    {i \in DOMAIN queue : queue[i].via = "dispatcher" /\ queue[i].outbox_id = id}

\* C40: with two dispatch_once invocations running concurrently on the same
\* outbox and no failure in either, no outbox row is selected and published
\* by both: each row is sent to the queue at most once (exactly once when it
\* is marked published), and each invocation's batch is in ascending
\* outbox_id order.
C40_NoDoublePublish ==
    /\ \A r \in outbox :
          /\ Cardinality(SendsOf(r.outbox_id)) <= 1
          /\ r.published_at # NULL => Cardinality(SendsOf(r.outbox_id)) = 1
    /\ \A d \in Disps :
          \A i, j \in DOMAIN dbatch[d] : i < j => dbatch[d][i] < dbatch[d][j]
====
